---- MODULE Spec2Model ----
(***************************************************************************)
(* A model of werm's session core:                                         *)
(*   - the resumable WebSocket frame decoder of inbound.c                  *)
(*     (mkeaval, forceinby, fwrd_inbound_frames),                          *)
(*   - the PTY output filter of session.c (process_tty_out and helpers).   *)
(*   - the keyboard path of session.c (writetosubproccore, process_kbd),   *)
(*   - the select loop of attach.c (attach_main).                          *)
(*                                                                         *)
(* Bytes are the naturals 0..255.  The decoder runs at the granularity of  *)
(* its read(2) calls, because that is where the client's writes interleave *)
(* with it.                                                                *)
(***************************************************************************)
EXTENDS Integers, Sequences, FiniteSets, TLC

(* ----------------------------- bounds --------------------------------- *)
\* sizeof(buf) of inbound.c is 512; the model runs the same code over a
\* smaller buffer so that payloads longer than the buffer stay small.
BufSize == 8
\* Number of bytes the client sends in one run.
MaxWire == 24
\* sizeof(wts.linebuf) and sizeof(wts.escbuf) of session.c are 1024; the
\* model runs the same code over smaller arrays.  The longest prefix that
\* consumeesc compares has 7 bytes.
LineBufSize == 4
EscBufSize == 8
\* Number of process_tty_out calls in one run.
MaxCalls == 5
\* Number of process_tty_out calls in one run on control sequences.
MaxCsiCalls == 4
\* Number of process_kbd calls in one run.
MaxKbdCalls == 4
\* Number of process_kbd calls and of process_tty_out calls in one run on
\* cursor keys.
MaxKeyCalls == 2
MaxModeCalls == 3
\* calls of process_tty_out on one byte of any value
MaxRoutCalls == 1
\* calls of process_tty_out on pieces of screen sequences, and calls of
\* recount_state
MaxScrCalls == 4
MaxRecounts == 2
\* calls of process_tty_out on text and operating system commands
MaxOscCalls == 5
\* calls of process_tty_out on pieces of control sequences
MaxSplitCalls == 4
\* BUFSIZE of dtach.h is 4096; the loop of attach.c reads the session socket
\* through a buffer of that size.
BUFSIZE == 2
\* Number of bytes the client sends in one run of the select loop.
MaxAttWire == 18
\* Number of bytes of shell output in one run of the select loop.
MaxShell == 1

(* ------------------------- byte arithmetic ---------------------------- *)
RECURSIVE XorN(_, _, _)
XorN(a, b, n) ==
  IF n = 0 THEN 0
  ELSE ((a + b) % 2) + 2 * XorN(a \div 2, b \div 2, n - 1)

\* a ^ b on unsigned char
Xor(a, b) == XorN(a, b, 8)

Min(a, b) == IF a < b THEN a ELSE b

Take(s, n) == SubSeq(s, 1, n)
Drop(s, n) == SubSeq(s, n + 1, Len(s))

\* The element of a one-element set: Only({ e(x) : x \in {v} }) is e(v) with
\* v worked out once.
Only(S) == CHOOSE r \in S : TRUE

IsPrefix(s, t) == Len(s) <= Len(t) /\ Take(t, Len(s)) = s

(* ------------------- the client's frames (the input) ------------------ *)
\* A client frame: header byte, MASK bit, length encoding (0: 7-bit,
\* 2: 16-bit extended, 8: 64-bit extended), masking key, plain payload.
MaskA == <<55, 250, 33, 61>>
MaskB == <<128, 137, 9, 129>>

LongData == [i \in 1..(BufSize + 2) |-> 64 + i]

Frame(h, m, e, k, d) == [hdr |-> h, mbit |-> m, ext |-> e, mask |-> k, data |-> d]

FrameMenu ==
  { Frame(129, 1, 0, MaskA, <<97>>),              \* text "a", FIN set
    Frame(1,   1, 0, MaskA, <<97>>),              \* text "a", FIN clear
    Frame(0,   1, 0, MaskB, <<>>),                \* empty continuation
    Frame(193, 1, 0, MaskA, <<102>>),             \* text with RSV1 set
    Frame(130, 1, 2, MaskB, LongData),            \* 16-bit length, > buffer
    Frame(130, 1, 8, MaskA, <<100>>),             \* 64-bit length
    Frame(137, 1, 0, MaskA, <<>>),                \* ping, empty
    Frame(137, 1, 0, MaskB, <<1, 2, 3, 4, 5, 6, 7, 8, 9>>),  \* ping, 9 bytes
    Frame(129, 0, 0, MaskA, <<103>>) }            \* text without a mask

Opcode(f) == f.hdr % 16
IsDataFrame(f) == Opcode(f) \in {0, 1, 2}
IsPingFrame(f) == Opcode(f) = 9

\* RFC 6455 wire encoding of one frame: payload byte i is XORed with
\* mask[i mod 4].
Encode(f) ==
  LET n == Len(f.data)
      l7 == IF f.ext = 0 THEN n ELSE IF f.ext = 2 THEN 126 ELSE 127
      extb == IF f.ext = 0 THEN <<>>
              ELSE IF f.ext = 2 THEN <<n \div 256, n % 256>>
              ELSE <<0, 0, 0, 0, 0, 0, n \div 256, n % 256>>
      key == IF f.mbit = 1 THEN f.mask ELSE <<>>
      pay == IF f.mbit = 1
             THEN [i \in 1..n |-> Xor(f.data[i], f.mask[((i - 1) % 4) + 1])]
             ELSE f.data
  IN <<f.hdr, f.mbit * 128 + l7>> \o extb \o key \o pay

RECURSIVE EncodeAll(_)
EncodeAll(fs) == IF fs = <<>> THEN <<>> ELSE Encode(Head(fs)) \o EncodeAll(Tail(fs))

\* What a conforming server delivers: the data frames' payloads in order.
RECURSIVE Expected(_)
Expected(fs) ==
  IF fs = <<>> THEN <<>>
  ELSE (IF IsDataFrame(Head(fs)) THEN Head(fs).data ELSE <<>>) \o Expected(Tail(fs))

\* Every sequence of frames of `menu` whose encoding fits in `budget` bytes.
RECURSIVE StreamsWithin(_, _)
StreamsWithin(menu, budget) ==
  {<<>>} \cup
  UNION { { <<f>> \o s : s \in StreamsWithin(menu, budget - Len(Encode(f))) } :
          f \in { g \in menu : Len(Encode(g)) <= budget } }

Streams == StreamsWithin(FrameMenu, MaxWire) \ {<<>>}

(* ------------------------------ state --------------------------------- *)
VARIABLES
  frames,    \* the frames the client sends in this run
  wire,      \* bytes the client has not written yet
  pipe,      \* bytes written by the client and readable on fd 0
  eof,       \* the client has closed its end
  inb,       \* inbound.c statics: buf, bfi, bfsz, datalen, unmaskof, state, datpart, mask
  pc,        \* position of fwrd_inbound_frames: "idle" | "run" | "read"
  need,      \* mkeaval's argument c while it loops on read
  dest,      \* the Fdbuf fwrd_inbound_frames appends to
  out1,      \* the writes made to fd 1 (stdout), in order
  proc,      \* "up" | "abort" (abort() was called) | "exit" (exit_msg)
  obs        \* observations of the run, see ObsInit

decvars == <<frames, wire, pipe, eof, inb, pc, need, dest, out1, proc, obs>>

VARIABLES
  wts,       \* the wts struct: linebuf, escbuf, linesz, linepos, escsz, ...
  tbuf,      \* process_tty_out: the bytes of this call not processed yet
  tpc,       \* position of process_tty_out: "idle" | "loop"
  tlog,      \* the writes made to wts.logfd, in order
  traw,      \* the writes made to wts.rawlogfd, in order
  tout,      \* the writes made to fd 1 by process_tty_out, in order
  tproc,     \* "up" | "fatal" (errx, line 309) | "errx" (line 186) | "segv"
  tobs,      \* observations of the run, see TObsInit
  tcalls,    \* process_tty_out calls made so far
  trec       \* the writes made by recount_state to its fd, in order

ttyvars == <<wts, tbuf, tpc, tlog, traw, tout, tproc, tobs, tcalls, trec>>

VARIABLES
  apc,       \* position of attach_main: "off" | "select" | "sock" | "stdin"
             \*   | "fwrd" | "wr"
  rset,      \* what select reported: stdin readable, socket readable,
             \*   socket writable
  sockin,    \* bytes readable on the session socket
  sockeof,   \* the master has closed the session socket
  shellq,    \* chunks of shell output the master has written so far
  fwd,       \* the calls of write_wbsoc_frame, in order
  sockout,   \* bytes written to the session socket
  aobs       \* observations of the run, see AObsInit

attvars == <<apc, rset, sockin, sockeof, shellq, fwd, sockout, aobs>>

VARIABLES
  kbuf,      \* the static kbuf[0..kbufsz) of session.c
  kpty,      \* the writes made to the PTY fd by process_kbd, in order
  kioc,      \* the TIOCSWINSZ calls made on the PTY fd: <<rows, columns>>
  kobs,      \* observations of the run, see KObsInit
  kcalls     \* process_kbd calls made so far

kbdvars == <<kbuf, kpty, kioc, kobs, kcalls>>

vars == <<decvars, ttyvars, attvars, kbdvars>>

(* ------------------------- inbound.c: decoder ------------------------- *)
pongmsg == <<138, 0>>

\* The statics of inbound.c, zero-initialised.
InbInit ==
  [ buf |-> [i \in 0..(BufSize - 1) |-> 0], bfi |-> 0, bfsz |-> 0,
    datalen |-> 0, unmaskof |-> 0, state |-> "0", datpart |-> 0,
    mask |-> [i \in 0..3 |-> 0] ]

\* What the run records about itself (not program state):
\*   called   fwrd_inbound_frames has been entered at least once
\*   dlvd     data frames completed since the current call was entered
\*   nhdr     header bytes classified so far
\*   nping    header bytes classified as ping so far
\*   lasthdr  the header byte classified last, as read (-1: none)
\*   lastcls  the state that classification chose
\*   lastlen  the length byte consumed last in state 'L', as read (-1: none)
\*   lendest  Len(dest) when that length byte was consumed
\*   lastread outcome of the current call's last read(2):
\*            "none", "data", "again", "eof"
ObsInit ==
  [ called |-> FALSE, dlvd |-> 0, nhdr |-> 0, nping |-> 0, lasthdr |-> -1,
    lastcls |-> "0", lastlen |-> -1, lendest |-> 0, lastread |-> "none" ]

\* The machine: everything a step of the decoder reads or writes.
Mach(i, p, n, pp, e, d, o, pr, ob) ==
  [ inb |-> i, pc |-> p, need |-> n, pipe |-> pp, eof |-> e, dest |-> d,
    out1 |-> o, proc |-> pr, obs |-> ob ]

\* The count each state hands to forceinby.
Cneed(d) ==
  CASE d.state = "0" -> 1
    [] d.state = "L" -> 1
    [] d.state = "X" -> 2
    [] d.state = "Y" -> 8
    [] d.state = "M" -> 4
    [] d.state = "D" -> d.datpart
    [] OTHER -> 1

\* A compaction that forgets bfsz = bleft.
mkeaval_compact_KeepsSize(d) ==
  LET bleft == d.bfsz - d.bfi IN
  [d EXCEPT !.buf = [i \in 0..(BufSize - 1) |->
                       IF i < bleft THEN d.buf[i + d.bfi] ELSE d.buf[i]],
            !.bfi = 0]

\* mkeaval, lines 31-33: keep the unread tail at the front of buf.
mkeaval_compact(d) ==
  LET bleft == d.bfsz - d.bfi IN
  [d EXCEPT !.bfsz = bleft,
            !.buf = [i \in 0..(BufSize - 1) |->
                       IF i < bleft THEN d.buf[i + d.bfi] ELSE d.buf[i]],
            !.bfi = 0]

\* A decoder that goes back to its caller once a data frame is complete.
WhileDatalen_ReturnsAfterFrame(m) ==
  IF m.inb.datalen > 0
  THEN [m EXCEPT !.inb.datpart = Min(BufSize, m.inb.datalen), !.inb.state = "D"]
  ELSE [m EXCEPT !.inb.state = "0", !.obs.dlvd = @ + 1, !.pc = "idle"]

\* while (datalen) { datpart = min(sizeof(buf), datalen); case 'D': ... }
\* state = 0;
WhileDatalen(m) ==
  IF m.inb.datalen > 0
  THEN [m EXCEPT !.inb.datpart = Min(BufSize, m.inb.datalen), !.inb.state = "D"]
  ELSE [m EXCEPT !.inb.state = "0", !.obs.dlvd = @ + 1]

\* A classification that forgets to clear the FIN bit.
HeaderByte_KeepsFin(m) ==
  LET d == m.inb
      h == d.buf[d.bfi - 1]
      st == IF h \in {0, 1, 2} THEN "L" ELSE IF h = 9 THEN "P" ELSE "0"
  IN [m EXCEPT !.inb.state = st,
               !.obs.lasthdr = h, !.obs.lastcls = st, !.obs.nhdr = @ + 1,
               !.obs.nping = IF st = "P" THEN @ + 1 ELSE @]

\* case 0, after forceinby(1): clear FIN, classify.
HeaderByte(m) ==
  LET d == m.inb
      h == d.buf[d.bfi - 1]
      h7 == h % 128
      st == IF h7 \in {0, 1, 2} THEN "L" ELSE IF h7 = 9 THEN "P" ELSE "0"
  IN [m EXCEPT !.inb.buf[d.bfi - 1] = h7, !.inb.state = st,
               !.obs.lasthdr = h, !.obs.lastcls = st, !.obs.nhdr = @ + 1,
               !.obs.nping = IF st = "P" THEN @ + 1 ELSE @]

\* A length byte handled without the check of the MASK bit.
LenByte_NoMaskCheck(m) ==
  LET d == m.inb
      b == d.buf[d.bfi - 1]
      n == b % 128
  IN [m EXCEPT !.inb.datalen = n,
               !.obs.lastlen = b, !.obs.lendest = Len(m.dest),
               !.inb.state = IF n = 126 THEN "X"
                             ELSE IF n = 127 THEN "Y" ELSE "M"]

\* case 'L', after forceinby(1).
LenByte(m) ==
  LET d == m.inb
      b == d.buf[d.bfi - 1]
      n == b % 128
      seen == [m EXCEPT !.inb.datalen = n,
                        !.obs.lastlen = b, !.obs.lendest = Len(m.dest)]
  IN IF b < 128
     THEN [seen EXCEPT !.proc = "abort"]
     ELSE [seen EXCEPT !.inb.state = IF n = 126 THEN "X"
                                     ELSE IF n = 127 THEN "Y" ELSE "M"]

\* case 'X', after forceinby(2): ntohs.
Len16(m) ==
  LET d == m.inb IN
  [m EXCEPT !.inb.datalen = d.buf[d.bfi - 2] * 256 + d.buf[d.bfi - 1],
            !.inb.state = "M"]

RECURSIVE BigEndian(_, _, _)
BigEndian(buf, from, n) ==
  IF n = 0 THEN 0
  ELSE BigEndian(buf, from, n - 1) * 256 + buf[from + n - 1]

\* case 'Y', after forceinby(8): two ntohl halves.
Len64(m) ==
  LET d == m.inb IN
  [m EXCEPT !.inb.datalen = BigEndian(d.buf, d.bfi - 8, 8), !.inb.state = "M"]

\* case 'M', after forceinby(4).
MaskBytes(m) ==
  LET d == m.inb IN
  Only({ WhileDatalen(n) :
           n \in { [m EXCEPT !.inb.mask = [i \in 0..3 |-> d.buf[d.bfi - 4 + i]],
                             !.inb.unmaskof = 0] } })

\* case 'D', after forceinby(datpart): unmask in place, append, count down.
DataPart(m) ==
  LET d == m.inb
      c == d.datpart
      at == d.bfi - c
      plain == [i \in 0..(BufSize - 1) |->
                  IF at <= i /\ i < d.bfi
                  THEN Xor(d.buf[i], d.mask[(d.unmaskof + (i - at)) % 4])
                  ELSE d.buf[i]]
  IN Only({ WhileDatalen(n) :
              n \in { [m EXCEPT !.inb.buf = p,
                                !.inb.unmaskof = (d.unmaskof + c) % 4,
                                !.dest = @ \o [k \in 1..c |-> p[at + k - 1]],
                                !.inb.datalen = @ - c] : p \in {plain} } })

\* What follows a successful forceinby in each state.
Proceed(m) ==
  CASE m.inb.state = "0" -> HeaderByte(m)
    [] m.inb.state = "L" -> LenByte(m)
    [] m.inb.state = "X" -> Len16(m)
    [] m.inb.state = "Y" -> Len64(m)
    [] m.inb.state = "M" -> MaskBytes(m)
    [] m.inb.state = "D" -> DataPart(m)

\* forceinby when mkeaval has returned 1: bfi += c.
forceinby(m, c) ==
  Only({ Proceed(n) : n \in { [m EXCEPT !.inb.bfi = @ + c, !.pc = "run"] } })

\* fwrd_inbound_frames, line 73.
EnterStep(m) ==
  IF m.inb.state = "0" /\ m.inb.bfi # m.inb.bfsz
  THEN [m EXCEPT !.proc = "abort"]
  ELSE [m EXCEPT !.pc = "run", !.obs.called = TRUE, !.obs.dlvd = 0,
                 !.obs.lastread = "none"]

\* One turn of for (;;) switch (state), up to the first read(2).
SwitchStep(m) ==
  LET d == m.inb IN
  IF d.state = "P"
  THEN [m EXCEPT !.out1 = Append(@, pongmsg), !.inb.state = "0"]
  ELSE LET c == Cneed(d) IN
       IF c > BufSize THEN [m EXCEPT !.proc = "abort"]
       ELSE IF d.bfsz - d.bfi >= c THEN forceinby(m, c)
       ELSE [m EXCEPT !.inb = mkeaval_compact(d), !.pc = "read", !.need = c]

\* mkeaval's read(0, buf + bfsz, sizeof(buf) - bfsz) returning n > 0 of the
\* bytes readable on fd 0; the do-while ends once bfsz >= c.
ReadDataStep(m, n) ==
  LET d == m.inb
      got == [m EXCEPT !.inb.buf = [i \in 0..(BufSize - 1) |->
                                      IF d.bfsz <= i /\ i < d.bfsz + n
                                      THEN m.pipe[i - d.bfsz + 1] ELSE d.buf[i]],
                       !.inb.bfsz = @ + n,
                       !.pipe = Drop(@, n),
                       !.obs.lastread = "data"]
  IN Only({ IF d.bfsz + n < m.need THEN g ELSE forceinby(g, m.need) :
              g \in {got} })

\* A read that waits for the client instead of failing.
ReadFailStep_Blocks(m) == [m EXCEPT !.obs.lastread = "again"]

\* read(2) failing with EAGAIN, EWOULDBLOCK or EINTR: mkeaval returns 0 and
\* fwrd_inbound_frames returns to its caller.
ReadFailStep(m) == [m EXCEPT !.pc = "idle", !.obs.lastread = "again"]

\* read(2) returning 0: abort().
ReadEofStep(m) == [m EXCEPT !.proc = "abort", !.obs.lastread = "eof"]

M == Mach(inb, pc, need, pipe, eof, dest, out1, proc, obs)

SetM(m) ==
  /\ inb' = m.inb /\ pc' = m.pc /\ need' = m.need /\ pipe' = m.pipe
  /\ eof' = m.eof /\ dest' = m.dest /\ out1' = m.out1 /\ proc' = m.proc
  /\ obs' = m.obs

(* ---------------------- the decoder's specification ------------------- *)
DecStart(S) ==
  /\ frames \in S
  /\ wire = EncodeAll(frames)
  /\ pipe = <<>>
  /\ eof = FALSE
  /\ inb = InbInit
  /\ pc = "idle"
  /\ need = 0
  /\ dest = <<>>
  /\ out1 = <<>>
  /\ proc = "up"
  /\ obs = ObsInit

\* The caller enters fwrd_inbound_frames.
Enter ==
  /\ proc = "up" /\ pc = "idle"
  /\ SetM(EnterStep(M))
  /\ UNCHANGED <<frames, wire, ttyvars, kbdvars, attvars>>

Switch ==
  /\ proc = "up" /\ pc = "run"
  /\ SetM(SwitchStep(M))
  /\ UNCHANGED <<frames, wire, ttyvars, kbdvars, attvars>>

\* A read that finds n bytes: the client has written that many more of its
\* stream by now, and the buffer has room for them.
ReadData ==
  /\ proc = "up" /\ pc = "read"
  /\ \E n \in 1..Min(Len(wire), BufSize - inb.bfsz) :
       /\ SetM(ReadDataStep([M EXCEPT !.pipe = Take(wire, n)], n))
       /\ wire' = Drop(wire, n)
  /\ UNCHANGED <<frames, ttyvars, kbdvars, attvars>>

\* A read that finds nothing yet (or is interrupted).
ReadAgain ==
  /\ proc = "up" /\ pc = "read"
  /\ SetM(ReadFailStep(M))
  /\ UNCHANGED <<frames, wire, ttyvars, kbdvars, attvars>>

\* A read after the client has sent everything and closed.
ReadEof ==
  /\ proc = "up" /\ pc = "read" /\ wire = <<>>
  /\ SetM(ReadEofStep(M))
  /\ UNCHANGED <<frames, wire, ttyvars, kbdvars, attvars>>

(* ------------------ session.c: the PTY output filter ------------------ *)
BEL == 7
BS == 8
LF == 10
CR == 13
ESC == 27

\* The chunks of PTY output handed to process_tty_out, one per call.
TtyMenu ==
  { <<97>>,                  \* a
    <<98, 99>>,              \* bc
    <<CR>>, <<BS>>, <<LF>>,
    <<ESC, 91, 67>>,         \* ESC [ C   cursor right
    <<ESC, 91, 75>>,         \* ESC [ K   erase to end of line
    <<ESC, 91, 65>>,         \* ESC [ A   cursor up
    <<ESC, 91, 49, 80>>,     \* ESC [ 1 P delete one character ahead
    <<ESC, 91, 45, 49, 80>>, \* ESC [ - 1 P
    <<ESC>>,                 \* the start of an escape, alone
    <<49, 49, 49, 49>>,      \* 1111      parameter bytes without an end
    <<91, 109>> }            \* [ m       the rest of an SGR sequence

\* wts after memset(&wts, 0, sizeof(wts)) and dtachorshell's opnforlog;
\* swcol is what an earlier window-size message left.
WtsInit(sw) ==
  [ linebuf |-> [i \in 0..(LineBufSize - 1) |-> 0],
    escbuf |-> [i \in 0..(EscBufSize - 1) |-> 0],
    linesz |-> 0, linepos |-> 0, escsz |-> 0,
    altscren |-> 0, appcursor |-> 0, rwout |-> 0,
    rwoutbuf |-> <<>>, rwoutsz |-> 0,
    logfd |-> 3, rawlogfd |-> 0, swrow |-> 0, swcol |-> sw,
    sendsigwin |-> 0, wsi |-> 0, winsize |-> [i \in 0..7 |-> 0], escp |-> 0 ]

\* What the run records about itself (not program state):
\*   oob     an access outside linebuf or escbuf has happened
\*   fresh   the byte processed last changed escsz or escbuf
\*   atbuf   linebuf when the byte processed last reached the label eol
\*   atsz    linesz at that moment
\*   input   the bytes handed to the call of process_tty_out made last
\*   appseq  the application-cursor sequence processed last:
\*           "h" (ESC [ ? 1 h), "l" (ESC [ ? 1 l) or "none"
TObsInit ==
  [ oob |-> FALSE, fresh |-> FALSE,
    atbuf |-> [i \in 0..(LineBufSize - 1) |-> 0], atsz |-> 0,
    input |-> <<>>, appseq |-> "none" ]

\* The filter's machine: what a step of process_tty_out reads or writes.
TMach(w, b, p, l, r, o, pr, ob, rc) ==
  [ wts |-> w, buf |-> b, pc |-> p, log |-> l, raw |-> r, out |-> o,
    proc |-> pr, obs |-> ob, rec |-> rc ]

\* What an out-of-bounds read can produce: the scan of deletechrahead sees
\* no 'P' there ("skip"), sees one ("del"), or the access faults ("crash");
\* a byte read outside linebuf is `byte`.
UbOracle == [ out : {"skip", "del", "crash"}, byte : {0, 255} ]

RECURSIVE Pow2Mod(_, _)
Pow2Mod(k, n) == IF k = 0 THEN 1 % n ELSE (2 * Pow2Mod(k - 1, n)) % n

\* (unsigned)x % n for -2^32 < x < 2^32
UMod32(x, n) == IF x >= 0 THEN x % n ELSE (Pow2Mod(32, n) + (x % n)) % n

\* SAFEPTR(buf, start, 1): the index start % (sizeof(buf) - 1 + 1)
SAFEPTR(size, start) == start % size

\* fullwrite: the whole buffer reaches the fd, as one entry.
fullwrite(fdout, bytes) == Append(fdout, bytes)

verifyroutcap(w, needed) ==
  LET minsz == Len(w.rwoutbuf) + needed IN
  IF minsz <= w.rwoutsz THEN w
  ELSE [w EXCEPT !.rwoutsz = IF minsz * 2 < 16 THEN 16 ELSE minsz * 2]

putroutraw(w, s) ==
  [verifyroutcap(w, Len(s)) EXCEPT !.rwoutbuf = @ \o s]

hexdig(v) == LET d == v % 16 IN d + (IF d < 10 THEN 48 ELSE 87)

\* putrout with the test of line 175 as b > 0x7f.
putrout_KeepsDel(w, b) ==
  LET c == b % 256 IN
  [verifyroutcap(w, 3) EXCEPT
     !.rwoutbuf = IF c = 92 \/ c < 32 \/ c > 127
                  THEN @ \o <<92, hexdig(c \div 16), hexdig(c)>>
                  ELSE Append(@, c)]

putrout(w, b) ==
  LET c == b % 256 IN
  [verifyroutcap(w, 3) EXCEPT
     !.rwoutbuf = IF c = 92 \/ c < 32 \/ c > 126
                  THEN @ \o <<92, hexdig(c \div 16), hexdig(c)>>
                  ELSE Append(@, c)]

\* consumeesc without its assignment: "errx", "hit" or "miss".
consumeesc(w, pref) ==
  IF Len(pref) > EscBufSize THEN "errx"
  ELSE IF w.escsz # Len(pref) THEN "miss"
  ELSE IF \E i \in 1..Len(pref) : w.escbuf[i - 1] # pref[i] THEN "miss"
  ELSE "hit"

IsSpace(b) == b \in {9, 10, 11, 12, 13, 32}
IsDigit(b) == b \in 48..57

RECURSIVE SkipSpace(_, _)
SkipSpace(buf, i) ==
  IF i < EscBufSize /\ IsSpace(buf[i]) THEN SkipSpace(buf, i + 1) ELSE i

RECURSIVE ScanDigits(_, _, _)
ScanDigits(buf, i, acc) ==
  IF i < EscBufSize /\ IsDigit(buf[i])
  THEN ScanDigits(buf, i + 1, acc * 10 + (buf[i] - 48))
  ELSE [val |-> acc, end |-> i]

\* strtoul(escbuf + from, &endptr, 10) over the bytes of escbuf: white
\* space, an optional sign, digits.  A negated value -v stands for the
\* unsigned long 2^64 - v.  `ran` says the scan went on past the array.
strtoul(buf, from) ==
  LET i == SkipSpace(buf, from)
      signed == i < EscBufSize /\ buf[i] \in {43, 45}
      j == IF signed THEN i + 1 ELSE i
      d == ScanDigits(buf, j, 0)
  IN IF d.end = j
     THEN [val |-> 0, end |-> from, ran |-> j >= EscBufSize]
     ELSE [val |-> IF signed /\ buf[i] = 45 THEN 0 - d.val ELSE d.val,
           end |-> d.end, ran |-> d.end >= EscBufSize]

\* deletechrahead, lines 211-215, with the count known.
DeleteCnt(t, cnt, u) ==
  LET w == t.wts
      sum == w.linepos + cnt      \* < 0: wraps to a huge unsigned long
  IN IF sum < 0 \/ w.linesz <= sum THEN t
     ELSE LET nsz == w.linesz - cnt
              outside == w.linesz > LineBufSize \/ nsz > LineBufSize
              moved == [i \in 0..(LineBufSize - 1) |->
                          IF w.linepos <= i /\ i < nsz
                          THEN IF i + cnt < LineBufSize
                               THEN w.linebuf[i + cnt] ELSE u.byte
                          ELSE w.linebuf[i]]
          IN IF outside /\ u.out = "crash"
             THEN [t EXCEPT !.proc = "segv", !.obs.oob = TRUE]
             ELSE [t EXCEPT !.wts.linesz = nsz, !.wts.linebuf = moved,
                            !.obs.oob = @ \/ outside]

deletechrahead(t, u) ==
  LET w == t.wts
      s == strtoul(w.escbuf, 2)
  IN IF w.escsz < 4 THEN t
     ELSE IF w.escsz > EscBufSize
     THEN \* lesc points past escbuf: *lesc is read out of bounds
          LET seen == [t EXCEPT !.obs.oob = TRUE] IN
          CASE u.out = "crash" -> [seen EXCEPT !.proc = "segv"]
            [] u.out = "del" /\ w.escbuf[1] = 91 /\ s.ran ->
                 DeleteCnt(seen, s.val, u)
            [] OTHER -> seen
     ELSE IF w.escbuf[w.escsz - 1] # 80 \/ w.escbuf[1] # 91 THEN t
     ELSE IF s.end # w.escsz - 1 THEN t
     ELSE DeleteCnt(t, s.val, u)

\* LineByte with the test of line 305 as linesz <= sizeof(linebuf).
LineByte_FlushesLate(t, b) ==
  LET w == t.wts
      pos == IF b = LF THEN w.linesz ELSE w.linepos
      stored == [w.linebuf EXCEPT ![SAFEPTR(LineBufSize, pos)] = b]
      npos == pos + 1
      nsz == IF w.linesz < npos THEN npos ELSE w.linesz
      kept == [t EXCEPT !.wts.linebuf = stored, !.wts.linepos = npos,
                        !.wts.linesz = nsz]
  IN IF b = BEL THEN t
     ELSE IF b # LF /\ nsz <= LineBufSize THEN kept
     ELSE IF nsz > LineBufSize THEN [kept EXCEPT !.proc = "fatal"]
     ELSE [kept EXCEPT
             !.log = IF w.logfd # 0
                     THEN fullwrite(@, [k \in 1..nsz |-> stored[k - 1]])
                     ELSE @,
             !.wts.linesz = 0, !.wts.linepos = 0]

\* LineByte with the test of line 305 on the length alone.
LineByte_FlushesWhenFull(t, b) ==
  LET w == t.wts
      pos == IF b = LF THEN w.linesz ELSE w.linepos
      stored == [w.linebuf EXCEPT ![SAFEPTR(LineBufSize, pos)] = b]
      npos == pos + 1
      nsz == IF w.linesz < npos THEN npos ELSE w.linesz
      kept == [t EXCEPT !.wts.linebuf = stored, !.wts.linepos = npos,
                        !.wts.linesz = nsz]
  IN IF b = BEL THEN t
     ELSE IF nsz < LineBufSize THEN kept
     ELSE IF nsz > LineBufSize THEN [kept EXCEPT !.proc = "fatal"]
     ELSE [kept EXCEPT
             !.log = IF w.logfd # 0
                     THEN fullwrite(@, [k \in 1..nsz |-> stored[k - 1]])
                     ELSE @,
             !.wts.linesz = 0, !.wts.linepos = 0]

\* Lines 299-315: store the byte in linebuf; at LF, or when linebuf is
\* full, write the line to the log.
LineByte(t, b) ==
  LET w == t.wts
      pos == IF b = LF THEN w.linesz ELSE w.linepos
      stored == [w.linebuf EXCEPT ![SAFEPTR(LineBufSize, pos)] = b]
      npos == pos + 1
      nsz == IF w.linesz < npos THEN npos ELSE w.linesz
      kept == [t EXCEPT !.wts.linebuf = stored, !.wts.linepos = npos,
                        !.wts.linesz = nsz]
  IN IF b = BEL THEN t
     ELSE IF b # LF /\ nsz < LineBufSize THEN kept
     ELSE IF nsz > LineBufSize THEN [kept EXCEPT !.proc = "fatal"]
     ELSE [kept EXCEPT
             !.log = IF w.logfd # 0
                     THEN fullwrite(@, [k \in 1..nsz |-> stored[k - 1]])
                     ELSE @,
             !.wts.linesz = 0, !.wts.linepos = 0]

\* Lines 292-297: the byte joins the escape in escbuf.
EscByte(t, b) ==
  LET w == t.wts
      at == IF b = ESC THEN 0 ELSE w.escsz
  IN IF b = ESC \/ w.escsz # 0
     THEN [t EXCEPT !.wts.escbuf[SAFEPTR(EscBufSize, at)] = b,
                    !.wts.escsz = at + 1]
     ELSE LineByte(t, b)

\* Lines 264-291: a lower-case byte ends a CSI sequence.
LowerByte(t, b) ==
  LET w == t.wts
      on == IF b = 104 THEN 1 ELSE 0
      r1 == consumeesc(w, <<ESC, 91, 63, 49>>)
      r2 == consumeesc(w, <<ESC, 91, 63, 52, 55>>)
      r3 == IF r2 = "miss"
            THEN consumeesc(w, <<ESC, 91, 63, 49, 48, 52, 55>>) ELSE r2
      r4 == consumeesc(w, <<ESC, 91, 63, 49, 48, 52, 57>>)
      failed == [t EXCEPT !.proc = "errx"]
      took == [w EXCEPT !.escsz = 0]
  IN IF b < 97 \/ b > 122 THEN EscByte(t, b)
     ELSE IF r1 = "errx" THEN failed
     ELSE IF r1 = "hit" THEN [t EXCEPT !.wts = [took EXCEPT !.appcursor = on]]
     ELSE IF r3 = "errx" THEN failed
     ELSE IF r3 = "hit"
     THEN [t EXCEPT !.wts = putroutraw([took EXCEPT !.altscren = on],
                              IF on = 1 THEN <<92, 115, 50>>
                              ELSE <<92, 115, 49>>)]
     ELSE IF r4 = "errx" THEN failed
     ELSE IF r4 = "hit"
     THEN [t EXCEPT !.wts = putroutraw([took EXCEPT !.altscren = on],
                              IF on = 1
                              THEN <<92, 115, 115, 92, 115, 50, 92, 99, 108>>
                              ELSE <<92, 115, 49, 92, 114, 115>>)]
     ELSE IF w.escsz > 1 /\ w.escbuf[1] = 91 THEN [t EXCEPT !.wts = took]
     ELSE EscByte(t, b)

\* Lines 249-263: an upper-case byte right after ESC [.
UpperByte(t, b) ==
  LET w == t.wts
      r == IF b >= 65 /\ b <= 90 THEN consumeesc(w, <<ESC, 91>>) ELSE "miss"
      took == [t EXCEPT !.wts.escsz = 0]
  IN IF r = "errx" THEN [t EXCEPT !.proc = "errx"]
     ELSE IF r = "hit"
     THEN CASE b = 75 -> [took EXCEPT !.wts.linesz = w.linepos]
            [] b = 65 -> [took EXCEPT !.wts.linepos =
                                        UMod32(w.linepos - w.swcol, LineBufSize)]
            [] b = 67 -> [took EXCEPT !.wts.linepos = w.linepos + 1]
            [] OTHER -> took
     ELSE LowerByte(t, b)

\* One turn of while (len) up to the label eol (or to errx).
ttymain(t, b) ==
  LET w == t.wts IN
  IF b = CR
  THEN [t EXCEPT !.wts.escsz = 0,
                 !.wts.linepos = IF w.swcol # 0
                                 THEN w.linepos - (w.linepos % w.swcol) ELSE 0]
  ELSE IF b = BS
  THEN [t EXCEPT !.wts.linepos = IF w.linepos # 0 THEN @ - 1 ELSE @]
  ELSE UpperByte(IF b = BEL THEN [t EXCEPT !.wts.escsz = 0] ELSE t, b)

\* One turn of while (len): the byte, then eol: deletechrahead, putrout.
ByteStep(t, u) ==
  LET b == Head(t.buf)
      m == ttymain(t, b)
      at == [m EXCEPT !.obs.fresh = m.wts.escsz # t.wts.escsz
                                    \/ m.wts.escbuf # t.wts.escbuf,
                      !.obs.atbuf = m.wts.linebuf,
                      !.obs.atsz = m.wts.linesz,
                      !.obs.appseq =
                        IF consumeesc(t.wts, <<ESC, 91, 63, 49>>) = "hit"
                           /\ b \in {104, 108}
                        THEN (IF b = 104 THEN "h" ELSE "l") ELSE @]
      d == deletechrahead(at, u)
  IN IF m.proc # "up" THEN m
     ELSE IF d.proc # "up" THEN d
     ELSE [d EXCEPT !.wts = putrout(@, b), !.buf = Tail(@)]

\* Whether the byte about to be processed leads to an access whose outcome
\* is not defined.
Undefined(t) ==
  LET m == ttymain(t, Head(t.buf)) IN
  m.proc = "up" /\ (m.wts.escsz > EscBufSize \/ m.wts.linesz > LineBufSize)

\* CallStep without the reset of rwoutlen of line 227.
CallStep_KeepsRout(t, c) ==
  [t EXCEPT !.raw = IF t.wts.rawlogfd # 0 THEN fullwrite(@, c) ELSE @,
            !.buf = c, !.pc = "loop", !.obs.input = c]

\* process_tty_out, lines 225-229.
CallStep(t, c) ==
  [t EXCEPT !.wts.rwoutbuf = <<>>,
            !.raw = IF t.wts.rawlogfd # 0 THEN fullwrite(@, c) ELSE @,
            !.buf = c, !.pc = "loop", !.obs.input = c]

\* ReturnStep with an escape not carried over to the next call.
ReturnStep_DropsEscape(t) ==
  LET w == putroutraw(t.wts, <<LF>>) IN
  [t EXCEPT !.wts = [w EXCEPT !.escsz = 0],
            !.out = IF w.rwout # 0 THEN fullwrite(@, w.rwoutbuf) ELSE @,
            !.pc = "idle"]

\* process_tty_out, lines 324-326.
ReturnStep(t) ==
  LET w == putroutraw(t.wts, <<LF>>) IN
  [t EXCEPT !.wts = w,
            !.out = IF w.rwout # 0 THEN fullwrite(@, w.rwoutbuf) ELSE @,
            !.pc = "idle"]

\* recount_state with the primary screen reported always.
recount_state_Primary(t) ==
  [t EXCEPT !.rec = fullwrite(@, <<92, 115, 49>>)]

\* recount_state, line 331.
recount_state(t) ==
  [t EXCEPT !.rec = fullwrite(@, IF t.wts.altscren # 0 THEN <<92, 115, 50>>
                                 ELSE <<92, 115, 49>>)]

TM == TMach(wts, tbuf, tpc, tlog, traw, tout, tproc, tobs, trec)

SetT(t) ==
  /\ wts' = t.wts /\ tbuf' = t.buf /\ tpc' = t.pc /\ tlog' = t.log
  /\ traw' = t.raw /\ tout' = t.out /\ tproc' = t.proc /\ tobs' = t.obs
  /\ trec' = t.rec

\* The filter before its first call.
TtyIdle(sw) ==
  /\ wts = WtsInit(sw)
  /\ tbuf = <<>> /\ tpc = "idle" /\ tlog = <<>> /\ traw = <<>> /\ tout = <<>>
  /\ tproc = "up" /\ tobs = TObsInit /\ tcalls = 0 /\ trec = <<>>

\* The master reads a chunk from the PTY and calls process_tty_out.
TtyCall ==
  /\ tproc = "up" /\ tpc = "idle" /\ tcalls < MaxCalls
  /\ \E c \in TtyMenu : SetT(CallStep(TM, c))
  /\ tcalls' = tcalls + 1
  /\ UNCHANGED <<decvars, attvars, kbdvars>>

TtyByte ==
  /\ tproc = "up" /\ tpc = "loop" /\ tbuf # <<>>
  /\ \E u \in (IF Undefined(TM) THEN UbOracle
               ELSE {[out |-> "skip", byte |-> 0]}) :
       SetT(ByteStep(TM, u))
  /\ UNCHANGED <<tcalls, decvars, attvars, kbdvars>>

TtyReturn ==
  /\ tproc = "up" /\ tpc = "loop" /\ tbuf = <<>>
  /\ SetT(ReturnStep(TM))
  /\ UNCHANGED <<tcalls, decvars, attvars, kbdvars>>

\* PTY output with control sequences, one chunk per call: CSI sequences the
\* filter interprets and ones it does not, an operating system command,
\* text, and cursor moves.
CsiMenu ==
  { <<72, 105>>,                     \* Hi
    <<92>>,                          \* a backslash
    <<LF>>, <<BEL>>,
    <<ESC, 91, 50, 74>>,             \* ESC [ 2 J   erase display
    <<ESC, 91, 49, 109>>,            \* ESC [ 1 m   bold
    <<ESC, 93, 48>>,                 \* ESC ] 0     an OSC, not ended
    <<ESC, 91, 63, 49, 104>>,        \* ESC [ ? 1 h application cursor on
    <<ESC, 91, 63, 49, 108>>,        \* ESC [ ? 1 l application cursor off
    <<ESC, 91, 63, 49, 115>>,        \* ESC [ ? 1 s save the mode (XTSAVE)
    <<ESC, 91, 63, 52, 55, 104>>,    \* ESC [ ? 4 7 h alternate screen
    <<ESC, 91, 63, 49, 48, 52, 57, 108>>,  \* ESC [ ? 1 0 4 9 l
    <<ESC, 91, 67, ESC, 91, 67>>,    \* ESC [ C, twice
    <<ESC, 91, 75>> }                \* ESC [ K

\* The master reads such a chunk from the PTY and calls process_tty_out.
CsiCall ==
  /\ tproc = "up" /\ tpc = "idle" /\ tcalls < MaxCsiCalls
  /\ \E c \in CsiMenu : SetT(CallStep(TM, c))
  /\ tcalls' = tcalls + 1
  /\ UNCHANGED <<decvars, attvars, kbdvars>>

\* PTY output that switches screens, the sequences whole and in pieces.
ScrMenu ==
  { <<ESC, 91, 63, 52, 55, 104>>,          \* ESC [ ? 4 7 h
    <<ESC, 91, 63, 52, 55, 108>>,          \* ESC [ ? 4 7 l
    <<ESC, 91, 63, 52, 55, 115>>,          \* ESC [ ? 4 7 s  save the mode
    <<ESC, 91>>,                           \* ESC [
    <<63, 52, 55, 104, 120, ESC>>,         \* ? 4 7 h x ESC
    <<91, 63, 49, 48, 52>>,                \* [ ? 1 0 4
    <<55, 104>>,                           \* 7 h
    <<57, 108>>,                           \* 9 l
    <<57, 104>> }                          \* 9 h

ScrCall ==
  /\ tproc = "up" /\ tpc = "idle" /\ tcalls < MaxScrCalls
  /\ \E c \in ScrMenu : SetT(CallStep(TM, c))
  /\ tcalls' = tcalls + 1
  /\ UNCHANGED <<decvars, attvars, kbdvars>>

\* The master tells a client the screen in use, between two calls of
\* process_tty_out.
Recount ==
  /\ tproc = "up" /\ tpc = "idle" /\ Len(trec) < MaxRecounts
  /\ SetT(recount_state(TM))
  /\ UNCHANGED <<tcalls, decvars, attvars, kbdvars>>

\* PTY output with operating system commands (ESC ] ... BEL), whole and in
\* pieces, between text.  ESC comes before a ] only.
OscMenu ==
  { <<97, 98>>,                      \* ab
    <<LF>>,
    <<ESC, 93, 48, 59>>,             \* ESC ] 0 ;     the start of an OSC
    <<116, 105>>,                    \* ti            text, or more of an OSC
    <<BEL>>,                         \* the end of an OSC, or a lone bell
    <<ESC, 93, 48, 59, 116, BEL>>,   \* ESC ] 0 ; t BEL
    <<ESC, 93, CR, 116, BEL>>,       \* ESC ] CR t BEL
    <<ESC, 93, BS, BEL>> }           \* ESC ] BS BEL

OscCall ==
  /\ tproc = "up" /\ tpc = "idle" /\ tcalls < MaxOscCalls
  /\ \E c \in OscMenu : SetT(CallStep(TM, c))
  /\ tcalls' = tcalls + 1
  /\ UNCHANGED <<decvars, attvars, kbdvars>>

\* PTY output cut at any place: text, and control sequences in pieces.
SplitMenu ==
  { <<97, 98>>,                      \* ab
    <<LF>>,
    <<ESC>>,
    <<91>>,                          \* [
    <<75>>,                          \* K
    <<63, 52, 55>>,                  \* ? 4 7
    <<104>>,                         \* h
    <<BS, ESC, 91>>,                 \* BS ESC [
    <<49, 80>>,                      \* 1 P
    <<ESC, 91, 67, ESC, 91, 67>>,    \* ESC [ C, twice
    <<ESC, 91, 75>> }                \* ESC [ K

SplitCall ==
  /\ tproc = "up" /\ tpc = "idle" /\ tcalls < MaxSplitCalls
  /\ \E c \in SplitMenu : SetT(CallStep(TM, c))
  /\ tcalls' = tcalls + 1
  /\ UNCHANGED <<decvars, attvars, kbdvars>>

\* PTY output of one byte, of any value.
RoutMenu == { <<b>> : b \in 0..255 }

RoutCall ==
  /\ tproc = "up" /\ tpc = "idle" /\ tcalls < MaxRoutCalls
  /\ \E c \in RoutMenu : SetT(CallStep(TM, c))
  /\ tcalls' = tcalls + 1
  /\ UNCHANGED <<decvars, attvars, kbdvars>>

(* ------------- session.c: the keyboard path (process_kbd) ------------- *)
\* sizeof(kbuf), sizeof(wts.winsize)
KBufSize == 8
WinSize == 8

\* The keyboard machine: what writetosubproccore and process_kbd read or
\* write.  pty are the writes to the PTY fd, ioc the TIOCSWINSZ calls.
KMach(w, kb, p, i, pr) ==
  [ wts |-> w, kbuf |-> kb, pty |-> p, ioc |-> i, proc |-> pr ]

\* finishkbuf(outfd) for a PTY fd (outfd # 1).
finishkbuf(k) ==
  IF k.kbuf = <<>> THEN k
  ELSE [k EXCEPT !.pty = fullwrite(@, k.kbuf), !.kbuf = <<>>]

\* addkeybyte with the test of line 534 as kbufsz > sizeof(kbuf).
addkeybyte_FlushesLate(k, c) ==
  LET f == IF Len(k.kbuf) > KBufSize THEN finishkbuf(k) ELSE k IN
  [f EXCEPT !.kbuf = Append(@, c)]

addkeybyte(k, c) ==
  LET f == IF Len(k.kbuf) = KBufSize THEN finishkbuf(k) ELSE k IN
  [f EXCEPT !.kbuf = Append(@, c)]

RECURSIVE SkipWinSpace(_, _)
SkipWinSpace(buf, i) ==
  IF i < WinSize /\ IsSpace(buf[i]) THEN SkipWinSpace(buf, i + 1) ELSE i

RECURSIVE ScanWinDigits(_, _, _, _)
ScanWinDigits(buf, i, room, acc) ==
  IF room > 0 /\ i < WinSize /\ IsDigit(buf[i])
  THEN ScanWinDigits(buf, i + 1, room - 1, acc * 10 + (buf[i] - 48))
  ELSE [val |-> acc, end |-> i]

\* One %4hu of sscanf over winsize from index i: white space, then at most
\* four characters of an optional sign and digits.  winsize has no NUL: the
\* scan stops at the latest at escp, which follows it in wts and holds 'w'.
ScanHu(buf, i) ==
  LET j == SkipWinSpace(buf, i)
      signed == j < WinSize /\ buf[j] \in {43, 45}
      k == IF signed THEN j + 1 ELSE j
      d == ScanWinDigits(buf, k, IF signed THEN 3 ELSE 4, 0)
  IN IF d.end = k THEN [ok |-> FALSE, val |-> 0, end |-> i]
     ELSE [ok |-> TRUE,
           val |-> IF signed /\ buf[j] = 45
                   THEN (65536 - (d.val % 65536)) % 65536 ELSE d.val % 65536,
           end |-> d.end]

\* WinDone reporting a window size only when it differs from the last.
WinDone_SkipsSameSize(w) ==
  LET r == ScanHu(w.winsize, 0)
      c == ScanHu(w.winsize, r.end)
  IN [w EXCEPT !.swrow = IF r.ok THEN r.val ELSE @,
               !.swcol = IF r.ok /\ c.ok THEN c.val ELSE @,
               !.sendsigwin = IF r.ok /\ c.ok
                                 /\ (r.val # w.swrow \/ c.val # w.swcol)
                              THEN 1 ELSE 0,
               !.escp = 0]

\* Lines 611-616: sscanf(wts.winsize, "%4hu%4hu", &wts.swrow, &wts.swcol).
WinDone(w) ==
  LET r == ScanHu(w.winsize, 0)
      c == ScanHu(w.winsize, r.end)
  IN [w EXCEPT !.swrow = IF r.ok THEN r.val ELSE @,
               !.swcol = IF r.ok /\ c.ok THEN c.val ELSE @,
               !.sendsigwin = IF r.ok /\ c.ok THEN 1 ELSE 0,
               !.escp = 0]

\* Lines 562-605: the byte after a backslash.
EscapedByte(k, byte) ==
  LET raw == [k EXCEPT !.wts.escp = 0]
      cursmvbyte == CASE byte = 94 -> 65     \* ^ A
                      [] byte = 118 -> 66    \* v B
                      [] byte = 62 -> 67     \* > C
                      [] byte = 60 -> 68     \* < D
                      [] byte = 101 -> 70    \* e F
                      [] byte = 104 -> 72    \* h H
                      [] OTHER -> 0
  IN CASE byte = 110 -> addkeybyte(raw, LF)
       [] byte = 92 -> addkeybyte(raw, 92)
       [] byte = 119 -> [k EXCEPT !.wts.wsi = 0, !.wts.escp = 119]
       [] cursmvbyte # 0 ->
            addkeybyte(addkeybyte(addkeybyte(raw, ESC),
                                  IF raw.wts.appcursor # 0 THEN 79 ELSE 91),
                       cursmvbyte)
       [] OTHER -> raw     \* 'd' (dump to a file), 'N', unknown (warnx)

\* Lines 607-618: a byte of the window size.
WinByte(k, byte) ==
  LET w == [k.wts EXCEPT !.winsize[k.wts.wsi] = byte, !.wsi = @ + 1] IN
  [k EXCEPT !.wts = IF w.wsi # WinSize THEN w ELSE WinDone(w)]

\* One turn of while (bufsz--), lines 550-621.
KbdByte_KeepsNewline(k, byte) ==
  CASE k.wts.escp = 0 ->
         IF byte = 92 THEN [k EXCEPT !.wts.escp = 49] ELSE addkeybyte(k, byte)
    [] k.wts.escp = 49 -> EscapedByte(k, byte)
    [] k.wts.escp = 119 -> WinByte(k, byte)
    [] OTHER -> [k EXCEPT !.proc = "errx"]

KbdByte(k, byte) ==
  IF byte = LF THEN k
  ELSE CASE k.wts.escp = 0 ->
              IF byte = 92 THEN [k EXCEPT !.wts.escp = 49]
              ELSE addkeybyte(k, byte)
         [] k.wts.escp = 49 -> EscapedByte(k, byte)
         [] k.wts.escp = 119 -> WinByte(k, byte)
         [] OTHER -> [k EXCEPT !.proc = "errx"]

RECURSIVE KbdLoop(_, _)
KbdLoop(k, buf) ==
  IF buf = <<>> \/ k.proc # "up" THEN k
  ELSE KbdLoop(KbdByte(k, Head(buf)), Tail(buf))

\* writetosubproccore with the parser mode set back to Raw at each call.
writetosubproccore_ResetsMode(k, buf) ==
  IF k.kbuf # <<>> THEN [k EXCEPT !.proc = "errx"]
  ELSE LET r == KbdLoop([k EXCEPT !.wts.sendsigwin = 0, !.wts.escp = 0], buf)
       IN IF r.proc # "up" THEN r ELSE finishkbuf(r)

writetosubproccore(k, buf) ==
  IF k.kbuf # <<>> THEN [k EXCEPT !.proc = "errx"]
  ELSE LET r == KbdLoop([k EXCEPT !.wts.sendsigwin = 0], buf)
       IN IF r.proc # "up" THEN r ELSE finishkbuf(r)

\* process_kbd, lines 639-650.
process_kbd(k, buf) ==
  LET r == writetosubproccore(k, buf) IN
  IF r.proc # "up" \/ r.wts.sendsigwin = 0 THEN r
  ELSE [r EXCEPT !.ioc = Append(@, <<r.wts.swrow, r.wts.swcol>>)]

\* The part of wts the keyboard path reads or writes.
KbdPart(w) ==
  [ escp |-> w.escp, wsi |-> w.wsi, winsize |-> w.winsize,
    swrow |-> w.swrow, swcol |-> w.swcol, sendsigwin |-> w.sendsigwin,
    appcursor |-> w.appcursor ]

\* What the run records about itself (not program state):
\*   pre     KbdPart(wts) when the call of process_kbd made last began
\*   input   the bytes handed to that call
\*   out     the writes that call made to the PTY
\*   ioc     the window-size ioctls that call issued
\*   appseq  tobs.appseq when that call began
\*   all     the bytes handed to all the calls so far, in order
KObsInit ==
  [ pre |-> KbdPart(WtsInit(0)), input |-> <<>>, out |-> <<>>, ioc |-> <<>>,
    appseq |-> "none", all |-> <<>> ]

KM == KMach(wts, kbuf, <<>>, <<>>, tproc)

\* The keyboard path before its first call.
KbdIdle ==
  /\ kbuf = <<>> /\ kpty = <<>> /\ kioc = <<>> /\ kobs = KObsInit
  /\ kcalls = 0

\* One call of process_kbd, start to end, on the bytes c.
KbdOn(c) == \E r \in {process_kbd(KM, c)} :
  /\ wts' = r.wts /\ kbuf' = r.kbuf /\ tproc' = r.proc
  /\ kpty' = kpty \o r.pty /\ kioc' = kioc \o r.ioc
  /\ kobs' = [ pre |-> KbdPart(wts), input |-> c, out |-> r.pty,
               ioc |-> r.ioc, appseq |-> tobs.appseq,
               all |-> kobs.all \o c ]
  /\ kcalls' = kcalls + 1
  /\ UNCHANGED <<tbuf, tpc, tlog, traw, tout, tobs, tcalls, trec, decvars,
                 attvars>>

\* The client's input as the master reads it from the session socket, one
\* chunk per call.
KbdMenu ==
  { <<92>>,                          \* a backslash
    <<119>>,                         \* w
    <<48, 48, 50, 52>>,              \* 0024
    <<48, 48, 56, 48>>,              \* 0080
    <<120, 120, 120, 120>>,          \* xxxx
    <<32, 32, 32, 49>>,              \* three spaces and 1
    <<LF>>,
    <<48, LF, 48, 50, LF, 52>>,      \* 0024 with newlines inside
    <<97, 98>>,                      \* ab
    <<48, 48, 56, 48, 92, 119, 48, 48, 51, 48, 120, 120, 120, 120>>,
                                     \* 0080 \w 0030xxxx
    <<97, 98, 99, 100, 101, 102, 103, 92, 104>>,   \* abcdefg \h
    <<92, 110, 92, 92>> }            \* \n \\

\* The master reads client input and calls process_kbd.
KbdCall ==
  /\ tproc = "up" /\ tpc = "idle" /\ kcalls < MaxKbdCalls
  /\ \E c \in KbdMenu : KbdOn(c)

\* Cursor keys from the client, whole or cut after the backslash.
KeyMenu ==
  { <<92, 94>>, <<92, 118>>, <<92, 62>>, <<92, 60>>, <<92, 101>>,
    <<92, 104>>, <<92>>, <<94>> }

KeyCall ==
  /\ tproc = "up" /\ tpc = "idle" /\ kcalls < MaxKeyCalls
  /\ \E c \in KeyMenu : KbdOn(c)

\* PTY output that sets, clears or saves the application cursor mode.
ModeMenu ==
  { <<ESC, 91, 63, 49, 104>>, <<ESC, 91, 63, 49, 108>>,
    <<ESC, 91, 63, 49, 115>> }

ModeCall ==
  /\ tproc = "up" /\ tpc = "idle" /\ tcalls < MaxModeCalls
  /\ \E c \in ModeMenu : SetT(CallStep(TM, c))
  /\ tcalls' = tcalls + 1
  /\ UNCHANGED <<decvars, attvars, kbdvars>>

(* -------------------- attach.c: the select loop ----------------------- *)
\* write_wbsoc_frame(buf, len): the chunk goes to stdout as one frame.
write_wbsoc_frame(out, chunk) == Append(out, chunk)

\* One call of the decoder with all of m.pipe readable at once, run to its
\* return.
RECURSIVE RunOn(_)
RunOn(start) ==
  Only({ IF m.proc # "up" \/ m.pc = "idle" THEN m
         ELSE IF m.pc = "run" THEN RunOn(SwitchStep(m))
         ELSE IF m.pipe = <<>> THEN ReadFailStep(m)
         ELSE RunOn(ReadDataStep(m, Min(Len(m.pipe), BufSize - m.inb.bfsz))) :
         m \in {start} })

\* What the decoder delivers for a stream that arrives without a pause.
NoPause(fs) ==
  RunOn(EnterStep(Mach(InbInit, "idle", 0, EncodeAll(fs), FALSE, <<>>, <<>>,
                       "up", ObsInit))).dest

\* What the run records about itself (not program state):
\*   retstate   the decoder's state when fwrd_inbound_frames last returned
\*   paused     it has returned in the middle of a frame
\*   fwdpaused  shell output was forwarded while it was suspended there
\*   nopause    NoPause of the run's stream
AObsInit ==
  [ retstate |-> "0", paused |-> FALSE, fwdpaused |-> FALSE, nopause |-> <<>> ]

MidFrame == {"L", "X", "Y", "M", "D"}

NoneReady == [ r0 |-> FALSE, rs |-> FALSE, ws |-> FALSE ]

\* attach_main is not running.
AttOff ==
  /\ apc = "off" /\ rset = NoneReady /\ sockin = <<>> /\ sockeof = FALSE
  /\ shellq = 0 /\ fwd = <<>> /\ sockout = <<>> /\ aobs = AObsInit

\* attach_main at its first select: both fds are non-blocking and the
\* wake probe has been written to the session socket.
AttStart ==
  /\ apc = "select" /\ rset = NoneReady /\ sockin = <<>> /\ sockeof = FALSE
  /\ shellq = 0 /\ fwd = <<>> /\ sockout = <<92, 78>>
  /\ aobs = [AObsInit EXCEPT !.nopause = NoPause(frames)]

\* The client's streams in a run of the loop: masked data frames with an
\* extended length, so that a pause can fall in every phase of a frame.
AttStreams ==
  StreamsWithin({ f \in FrameMenu : f.mbit = 1 /\ f.ext # 0 }, MaxAttWire)
    \ {<<>>}

\* select(s + 1, &readfds, &writfds, NULL, NULL) returns: it blocks until
\* a descriptor is ready.  The session socket takes what is written to it.
Select ==
  /\ proc = "up" /\ apc = "select"
  /\ pipe # <<>> \/ eof \/ sockin # <<>> \/ sockeof \/ dest # <<>>
  /\ rset' = [ r0 |-> pipe # <<>> \/ eof, rs |-> sockin # <<>> \/ sockeof,
               ws |-> dest # <<>> ]
  /\ apc' = "sock"
  /\ UNCHANGED <<decvars, ttyvars, kbdvars, sockin, sockeof, shellq, fwd, sockout, aobs>>

\* Lines 214-224: Pty activity.
PtyActivity ==
  /\ proc = "up" /\ apc = "sock"
  /\ IF ~rset.rs
     THEN UNCHANGED <<proc, sockin, fwd, aobs>>
     ELSE IF sockin = <<>>
     THEN proc' = "exit" /\ UNCHANGED <<sockin, fwd, aobs>>
     ELSE LET len == Min(Len(sockin), BUFSIZE) IN
          /\ fwd' = write_wbsoc_frame(fwd, Take(sockin, len))
          /\ sockin' = Drop(sockin, len)
          /\ aobs' = [aobs EXCEPT !.fwdpaused = @ \/ aobs.retstate \in MidFrame]
          /\ UNCHANGED proc
  /\ apc' = "stdin"
  /\ UNCHANGED <<frames, wire, pipe, eof, inb, pc, need, dest, out1, obs>>
  /\ UNCHANGED <<ttyvars, kbdvars, rset, sockeof, shellq, sockout>>

\* Lines 226-227: stdin activity.
StdinActivity ==
  /\ proc = "up" /\ apc = "stdin"
  /\ IF rset.r0
     THEN SetM(EnterStep(M)) /\ apc' = "fwrd"
     ELSE apc' = "wr" /\ UNCHANGED <<inb, pc, need, pipe, eof, dest, out1, proc, obs>>
  /\ UNCHANGED <<frames, wire, ttyvars, kbdvars, rset, sockin, sockeof, shellq, fwd,
                 sockout, aobs>>

\* A step of fwrd_inbound_frames inside the loop; when it returns, the loop
\* goes on to line 228.
InLoop(step) ==
  /\ UNCHANGED <<frames, wire, ttyvars, kbdvars, rset, sockin, sockeof, shellq, fwd,
                 sockout>>
  /\ \E m \in {step} :
       /\ SetM(m)
       /\ apc' = IF m.pc = "idle" THEN "wr" ELSE "fwrd"
       /\ aobs' = IF m.pc = "idle"
                  THEN [aobs EXCEPT !.retstate = m.inb.state,
                                    !.paused = @ \/ m.inb.state \in MidFrame]
                  ELSE aobs

LoopSwitch ==
  /\ proc = "up" /\ apc = "fwrd" /\ pc = "run"
  /\ InLoop(SwitchStep(M))

\* read(0, ...) on the non-blocking stdin: what is there, up to the room.
LoopReadData ==
  /\ proc = "up" /\ apc = "fwrd" /\ pc = "read" /\ pipe # <<>>
  /\ InLoop(ReadDataStep(M, Min(Len(pipe), BufSize - inb.bfsz)))

LoopReadAgain ==
  /\ proc = "up" /\ apc = "fwrd" /\ pc = "read" /\ pipe = <<>> /\ ~eof
  /\ InLoop(ReadFailStep(M))

LoopReadEof ==
  /\ proc = "up" /\ apc = "fwrd" /\ pc = "read" /\ pipe = <<>> /\ eof
  /\ InLoop(ReadEofStep(M))

\* SockWritable with the bytes the socket did not take thrown away.
SockWritable_DropsRest ==
  /\ proc = "up" /\ apc = "wr"
  /\ IF rset.ws
     THEN \E n \in {1, Len(dest)} :
            /\ sockout' = sockout \o Take(dest, n)
            /\ dest' = <<>>
     ELSE UNCHANGED <<sockout, dest>>
  /\ apc' = "select" /\ rset' = NoneReady
  /\ UNCHANGED <<frames, wire, pipe, eof, inb, pc, need, out1, proc, obs>>
  /\ UNCHANGED <<ttyvars, kbdvars, sockin, sockeof, shellq, fwd, aobs>>

\* Line 228, and the FD_ZERO of the next turn: buf_to_fd(&fromstdin, s)
\* writes the pending bytes, or only the first of them when the socket takes
\* no more, and keeps the rest.
SockWritable ==
  /\ proc = "up" /\ apc = "wr"
  /\ IF rset.ws
     THEN \E n \in {1, Len(dest)} :
            /\ sockout' = sockout \o Take(dest, n)
            /\ dest' = Drop(dest, n)
     ELSE UNCHANGED <<sockout, dest>>
  /\ apc' = "select" /\ rset' = NoneReady
  /\ UNCHANGED <<frames, wire, pipe, eof, inb, pc, need, out1, proc, obs>>
  /\ UNCHANGED <<ttyvars, kbdvars, sockin, sockeof, shellq, fwd, aobs>>

\* The client writes more of its stream to the server's stdin.
ClientWrite ==
  /\ proc = "up" /\ wire # <<>>
  /\ \E n \in 1..Len(wire) :
       pipe' = pipe \o Take(wire, n) /\ wire' = Drop(wire, n)
  /\ UNCHANGED <<frames, eof, inb, pc, need, dest, out1, proc, obs>>
  /\ UNCHANGED <<ttyvars, kbdvars, attvars>>

\* The client closes the connection.
ClientClose ==
  /\ proc = "up" /\ wire = <<>> /\ ~eof
  /\ eof' = TRUE
  /\ UNCHANGED <<frames, wire, pipe, inb, pc, need, dest, out1, proc, obs>>
  /\ UNCHANGED <<ttyvars, kbdvars, attvars>>

\* The master writes a chunk of shell output to the session socket.
ShellOutput ==
  /\ proc = "up" /\ shellq < MaxShell /\ ~sockeof
  /\ sockin' = Append(sockin, shellq + 1)
  /\ shellq' = shellq + 1
  /\ UNCHANGED <<decvars, ttyvars, kbdvars, apc, rset, sockeof, fwd, sockout, aobs>>

\* The master closes the session socket.
MasterClose ==
  /\ proc = "up" /\ ~sockeof
  /\ sockeof' = TRUE
  /\ UNCHANGED <<decvars, ttyvars, kbdvars, apc, rset, sockin, shellq, fwd, sockout, aobs>>

(* --------------------------- specifications --------------------------- *)
Init == DecStart(Streams) /\ TtyIdle(0) /\ AttOff /\ KbdIdle

Next ==
  \/ Enter \/ Switch \/ ReadData \/ ReadAgain \/ ReadEof

Spec == Init /\ [][Next]_vars

\* The decoder, not running.
DecIdle ==
  /\ frames = <<>> /\ wire = <<>> /\ pipe = <<>> /\ eof = FALSE
  /\ inb = InbInit /\ pc = "idle" /\ need = 0 /\ dest = <<>> /\ out1 = <<>>
  /\ proc = "up" /\ obs = ObsInit

TtyInit == DecIdle /\ AttOff /\ KbdIdle /\ \E sw \in {0, 3} : TtyIdle(sw)

TtyNext == TtyCall \/ TtyByte \/ TtyReturn

TtySpec == TtyInit /\ [][TtyNext]_vars

\* The filter on control sequences, with and without a text log, and with
\* the client-bound buffer also written to stdout.
CsiInit ==
  /\ DecIdle /\ AttOff /\ KbdIdle
  /\ \E f \in {[log |-> 3, rw |-> 0], [log |-> 0, rw |-> 1]} :
       wts = [WtsInit(0) EXCEPT !.logfd = f.log, !.rwout = f.rw]
  /\ tbuf = <<>> /\ tpc = "idle" /\ tlog = <<>> /\ traw = <<>> /\ tout = <<>>
  /\ tproc = "up" /\ tobs = TObsInit /\ tcalls = 0 /\ trec = <<>>

CsiNext == CsiCall \/ TtyByte \/ TtyReturn

CsiSpec == CsiInit /\ [][CsiNext]_vars

\* The filter on single bytes of every value, the client-bound buffer also
\* written to stdout.
RoutInit ==
  /\ DecIdle /\ AttOff /\ KbdIdle
  /\ wts = [WtsInit(0) EXCEPT !.rwout = 1]
  /\ tbuf = <<>> /\ tpc = "idle" /\ tlog = <<>> /\ traw = <<>> /\ tout = <<>>
  /\ tproc = "up" /\ tobs = TObsInit /\ tcalls = 0 /\ trec = <<>>

RoutNext == RoutCall \/ TtyByte \/ TtyReturn

RoutSpec == RoutInit /\ [][RoutNext]_vars

\* The filter on screen switches, with a raw log and the client-bound
\* buffer also written to stdout.
ScrInit ==
  /\ DecIdle /\ AttOff /\ KbdIdle
  /\ wts = [WtsInit(0) EXCEPT !.rwout = 1, !.rawlogfd = 4]
  /\ tbuf = <<>> /\ tpc = "idle" /\ tlog = <<>> /\ traw = <<>> /\ tout = <<>>
  /\ tproc = "up" /\ tobs = TObsInit /\ tcalls = 0 /\ trec = <<>>

ScrNext == ScrCall \/ TtyByte \/ TtyReturn \/ Recount

ScrSpec == ScrInit /\ [][ScrNext]_vars

\* The filter on operating system commands, with a text log, a raw log and
\* the client-bound buffer also written to stdout.
OscInit ==
  /\ DecIdle /\ AttOff /\ KbdIdle
  /\ wts = [WtsInit(0) EXCEPT !.rwout = 1, !.rawlogfd = 4]
  /\ tbuf = <<>> /\ tpc = "idle" /\ tlog = <<>> /\ traw = <<>> /\ tout = <<>>
  /\ tproc = "up" /\ tobs = TObsInit /\ tcalls = 0 /\ trec = <<>>

OscNext == OscCall \/ TtyByte \/ TtyReturn

OscSpec == OscInit /\ [][OscNext]_vars

\* The filter on output cut into pieces, with a text log and a raw log.
SplitStart == [WtsInit(0) EXCEPT !.rawlogfd = 4]

SplitInit ==
  /\ DecIdle /\ AttOff /\ KbdIdle
  /\ wts = SplitStart
  /\ tbuf = <<>> /\ tpc = "idle" /\ tlog = <<>> /\ traw = <<>> /\ tout = <<>>
  /\ tproc = "up" /\ tobs = TObsInit /\ tcalls = 0 /\ trec = <<>>

SplitNext == SplitCall \/ TtyByte \/ TtyReturn

SplitSpec == SplitInit /\ [][SplitNext]_vars

\* The keyboard path alone: appcursor is what the PTY output has left it.
KbdInit ==
  /\ DecIdle /\ AttOff /\ KbdIdle
  /\ \E a \in {0, 1} : wts = [WtsInit(0) EXCEPT !.appcursor = a]
  /\ tbuf = <<>> /\ tpc = "idle" /\ tlog = <<>> /\ traw = <<>> /\ tout = <<>>
  /\ tproc = "up" /\ tobs = TObsInit /\ tcalls = 0 /\ trec = <<>>

KbdNext == KbdCall

KbdSpec == KbdInit /\ [][KbdNext]_vars

\* Cursor keys from the client between chunks of PTY output, as the master
\* serves both from one loop.
KeyInit == DecIdle /\ AttOff /\ KbdIdle /\ TtyIdle(0)

KeyNext == KeyCall \/ ModeCall \/ TtyByte \/ TtyReturn

KeySpec == KeyInit /\ [][KeyNext]_vars

\* The steps attach_main takes.
LoopStep ==
  \/ Select \/ PtyActivity \/ StdinActivity \/ LoopSwitch \/ LoopReadData
  \/ LoopReadAgain \/ LoopReadEof \/ SockWritable

AttInit == DecStart(AttStreams) /\ TtyIdle(0) /\ AttStart /\ KbdIdle

AttNext ==
  \/ Select \/ PtyActivity \/ StdinActivity \/ LoopSwitch \/ LoopReadData
  \/ LoopReadAgain \/ LoopReadEof \/ SockWritable
  \/ ClientWrite \/ ClientClose \/ ShellOutput \/ MasterClose

\* The process runs whenever it can: select blocks only while nothing is
\* ready.  Nothing is assumed of the client or of the master.
AttSpec == AttInit /\ [][AttNext]_vars /\ WF_vars(LoopStep)

TypeOK ==
  /\ pc \in {"idle", "run", "read"}
  /\ proc \in {"up", "abort", "exit"}
  /\ inb.state \in {"0", "P", "L", "X", "Y", "M", "D"}
  /\ inb.bfi \in 0..BufSize /\ inb.bfsz \in 0..BufSize
  /\ tpc \in {"idle", "loop"}
  /\ tproc \in {"up", "fatal", "errx", "segv"}
  /\ wts.linepos \in Nat /\ wts.linesz \in Nat /\ wts.escsz \in Nat
  /\ apc \in {"off", "select", "sock", "stdin", "fwrd", "wr"}
  /\ shellq \in 0..MaxShell

(* ----------------------- claims about the decoder --------------------- *)
\* A valid client stream: every frame carries the MASK bit and no RSV bit.
ValidFrame(f) == f.mbit = 1 /\ (f.hdr % 128) \div 16 = 0
AllValid(fs) == \A i \in 1..Len(fs) : ValidFrame(fs[i])

\* Masked data frames with the RSV bits clear (FIN set or clear).
PlainData(f) == f.mbit = 1 /\ f.hdr % 128 \in {0, 1, 2}

\* The client has sent everything and the decoder has consumed all it can
\* and gone back to its caller.
Drained == wire = <<>> /\ pipe = <<>> /\ pc = "idle" /\ proc = "up" /\ obs.called

\* C1: for a valid stream of masked frames, data frames interleaved with
\* control frames, however it is split across reads and calls, the bytes
\* appended to the sink are the data frames' unmasked payloads in order:
\* never anything else, all of them once the stream is consumed, and the
\* decoder aborts only when the client has closed.
C1_SinkIsThePayloads ==
  AllValid(frames) =>
    /\ IsPrefix(dest, Expected(frames))
    /\ (Drained => dest = Expected(frames))
    /\ (proc = "abort" => obs.lastread = "eof")

\* C2: a stream that is one masked ping frame causes exactly one pong: never
\* a second one, and the one is written before a second header is consumed.
C2_OnePongPerPing ==
  (Len(frames) = 1 /\ IsPingFrame(frames[1]) /\ frames[1].mbit = 1) =>
    /\ Len(out1) <= 1
    /\ (obs.nhdr >= 2 => out1 = <<pongmsg>>)
    /\ (Drained => out1 = <<pongmsg>>)

ClassOfOpcode(op) ==
  IF op \in {0, 1, 2} THEN "L" ELSE IF op = 9 THEN "P" ELSE "0"

\* C8 as stated: the classification of a header byte depends on its 4-bit
\* opcode alone.
C8_ClassByOpcodeAlone ==
  obs.lasthdr >= 0 => obs.lastcls = ClassOfOpcode(obs.lasthdr % 16)

\* C8 as amended: the classification depends on the header byte without its
\* FIN bit: FIN set or clear is classified alike and delivers the same
\* payload, and any RSV bit makes the byte a discarded reserved code.
C8_ClassIgnoresFinOnly ==
  /\ obs.lasthdr >= 0 =>
        obs.lastcls = IF (obs.lasthdr % 128) \div 16 # 0 THEN "0"
                      ELSE ClassOfOpcode(obs.lasthdr % 16)
  /\ (\A i \in 1..Len(frames) : PlainData(frames[i])) =>
        /\ IsPrefix(dest, Expected(frames))
        /\ (Drained => dest = Expected(frames))

\* C8 witness: a FIN-clear text frame and a FIN-set one, both delivered.
C8_Witness ==
  /\ Drained /\ Len(frames) = 2
  /\ frames[1].hdr = 1 /\ frames[2].hdr = 129
  /\ dest = <<97, 97>>

\* The first frame that is a data frame without the MASK bit, all frames
\* before it being masked data frames (0: there is none).
FirstUnmasked(fs) ==
  LET c == { i \in 1..Len(fs) :
               /\ fs[i].mbit = 0 /\ fs[i].hdr % 128 \in {0, 1, 2}
               /\ \A j \in 1..(i - 1) : PlainData(fs[j]) }
  IN IF c = {} THEN 0 ELSE CHOOSE i \in c : TRUE

\* C9: a length byte with the MASK bit clear aborts the process at that
\* byte, and nothing of that frame reaches the sink.
C9_UnmaskedAborts ==
  /\ obs.lastlen \in 0..127 => proc = "abort" /\ Len(dest) = obs.lendest
  /\ FirstUnmasked(frames) > 0 =>
        /\ IsPrefix(dest, Expected(Take(frames, FirstUnmasked(frames) - 1)))
        /\ ~Drained

\* C9 witness: a data frame was delivered, then an unmasked one aborted.
C9_Witness ==
  /\ FirstUnmasked(frames) = 2
  /\ proc = "abort" /\ obs.lastlen \in 0..127 /\ dest = frames[1].data
  /\ dest # <<>>

(* --------------------- claims about the select loop ------------------- *)
\* The payload delivered so far: written to the session socket after the
\* wake probe, or pending in fromstdin.
Delivered == Drop(sockout, 2) \o dest

\* Shell byte k has been handed to write_wbsoc_frame.
Forwarded(k) == \E i \in 1..Len(fwd) : \E j \in 1..Len(fwd[i]) : fwd[i][j] = k

Readable(k) == \E i \in 1..Len(sockin) : sockin[i] = k

C3_EscszWithinEscbuf == wts.escsz <= EscBufSize

\* C4: after each byte, linesz is at most sizeof(linebuf), and the fatal
\* "linesz is too large" exit of process_tty_out is never taken.
C4_LineszWithinLinebuf == wts.linesz <= LineBufSize /\ tproc # "fatal"

\* C5: no read or write of linebuf or escbuf made while filtering uses an
\* index outside the array.
C5_AccessesInBounds == ~tobs.oob /\ tproc # "segv"

\* escbuf holds ESC [ <digits> P, complete.
IsDeleteSeq(w) ==
  /\ w.escsz >= 4 /\ w.escsz <= EscBufSize
  /\ w.escbuf[0] = ESC /\ w.escbuf[1] = 91 /\ w.escbuf[w.escsz - 1] = 80
  /\ \A i \in 2..(w.escsz - 2) : IsDigit(w.escbuf[i])

\* The N of the ESC [ N P in escbuf.
RECURSIVE DigitsValue(_, _, _)
DigitsValue(buf, from, to) ==
  IF to < from THEN 0
  ELSE DigitsValue(buf, from, to - 1) * 10 + (buf[to] - 48)

DeleteCount(w) == DigitsValue(w.escbuf, 2, w.escsz - 2)

\* linebuf[linepos+n .. linesz) shifted down to linepos.
ShiftedDown(buf, pos, sz, n) ==
  [i \in 0..(LineBufSize - 1) |->
     IF pos <= i /\ i < sz - n THEN buf[i + n] ELSE buf[i]]

\* C10: ESC [ N P deletes N characters ahead exactly once.  When the P has
\* just been processed, linebuf and linesz are those before it with
\* linebuf[linepos+N .. linesz) shifted down and linesz less by N if
\* linesz > linepos + N, and unchanged otherwise; a byte processed after the
\* P, with that sequence still in escbuf, deletes nothing.
C10_DeletesAheadOnce ==
  (tproc = "up" /\ IsDeleteSeq(wts) /\ tobs.atsz <= LineBufSize) =>
     LET n == DeleteCount(wts) IN
     IF tobs.fresh /\ tobs.atsz > wts.linepos + n
     THEN /\ wts.linesz = tobs.atsz - n
          /\ wts.linebuf = ShiftedDown(tobs.atbuf, wts.linepos, tobs.atsz, n)
     ELSE wts.linesz = tobs.atsz /\ wts.linebuf = tobs.atbuf

(* -------------- claims about control sequences (CsiSpec) -------------- *)
\* process_tty_out is about to process the byte Head(tbuf).
AtByte == tproc = "up" /\ tpc = "loop" /\ tbuf # <<>>

IsParam(b) == b \in 48..63
IsAlpha(b) == b \in 65..90 \/ b \in 97..122

\* escbuf holds pref, and nothing more.
EscIs(w, pref) ==
  /\ w.escsz = Len(pref)
  /\ \A i \in 1..Len(pref) : w.escbuf[i - 1] = pref[i]

\* escbuf holds ESC [ and parameter bytes: a CSI sequence lacks its final
\* byte.
CsiOpen(w) ==
  /\ w.escsz >= 2 /\ w.escsz <= EscBufSize
  /\ w.escbuf[0] = ESC /\ w.escbuf[1] = 91
  /\ \A i \in 2..(w.escsz - 1) : IsParam(w.escbuf[i])

\* The sequences of the table of recognized sequences, by final byte b.
Recognized(w, b) ==
  \/ w.escsz = 2 /\ b \in {75, 65, 67}
  \/ EscIs(w, <<ESC, 91, 63, 49>>) /\ b \in {104, 108}
  \/ /\ \/ EscIs(w, <<ESC, 91, 63, 52, 55>>)
        \/ EscIs(w, <<ESC, 91, 63, 49, 48, 52, 55>>)
        \/ EscIs(w, <<ESC, 91, 63, 49, 48, 52, 57>>)
     /\ b \in {104, 108}
  \/ b = 80 /\ w.escsz > 2 /\ \A i \in 2..(w.escsz - 1) : IsDigit(w.escbuf[i])

\* C11: an unrecognized CSI sequence (ESC [, parameter bytes, a final byte
\* in A..Z or a..z) ends at its final byte: after that byte escsz = 0, so
\* that the bytes that follow are stored in linebuf, and the byte has left
\* linebuf and linesz as they were.
C11_UnrecognizedCsiEnds ==
  [][ (AtByte /\ CsiOpen(wts) /\ IsAlpha(Head(tbuf))
         /\ ~Recognized(wts, Head(tbuf)))
      => /\ wts'.escsz = 0
         /\ wts'.linebuf = wts.linebuf /\ wts'.linesz = wts.linesz ]_vars

\* The line an LF completes: linebuf[0..linesz) and the LF itself.
CurrentLine ==
  [k \in 1..(wts.linesz + 1) |->
     IF k <= wts.linesz THEN wts.linebuf[k - 1] ELSE LF]

\* The step writes the current line to the text log, if there is one, and
\* resets linesz and linepos.
Flushed ==
  /\ wts.linesz < LineBufSize
  /\ tlog' = IF wts.logfd # 0 THEN Append(tlog, CurrentLine) ELSE tlog
  /\ wts'.linesz = 0 /\ wts'.linepos = 0

\* C12 as stated: every LF byte writes the current line to the text log
\* (when one is configured) and resets linesz and linepos to 0 before the
\* next byte is processed.
C12_EveryLfFlushes ==
  [][ (AtByte /\ Head(tbuf) = LF) => Flushed ]_vars

\* C12 amended: an LF processed while no escape is pending (escsz = 0)
\* writes the current line and resets linesz and linepos, unless linesz is
\* sizeof(linebuf) or more already, when the process exits at line 309; an
\* LF processed while an escape is pending joins escbuf and writes nothing.
C12_LfFlushesOutsideEscapes ==
  [][ (AtByte /\ Head(tbuf) = LF)
      => /\ wts.escsz = 0
            => IF wts.linesz >= LineBufSize THEN tproc' = "fatal" ELSE Flushed
         /\ (wts.escsz > 0 /\ wts.escsz < EscBufSize)
            => /\ wts'.escsz = wts.escsz + 1
               /\ wts'.escbuf[wts.escsz] = LF
               /\ tlog' = tlog
               /\ wts'.linesz = wts.linesz /\ wts'.linepos = wts.linepos ]_vars

\* An LF has just completed the line "Hi" and the line is in the log.
C12_Witness ==
  /\ tproc = "up" /\ tpc = "loop" /\ tbuf = <<>> /\ tobs.input = <<LF>>
  /\ tlog # <<>> /\ tlog[Len(tlog)] = <<72, 105, LF>>
  /\ wts.linesz = 0 /\ wts.linepos = 0 /\ wts.escsz = 0

\* C13: appcursor changes only at the byte that completes ESC [ ? 1 h or
\* ESC [ ? 1 l, and altscren only at the byte that completes ESC [ ? 47,
\* ESC [ ? 1047 or ESC [ ? 1049 with h or l.
C13_FlagsChangeOnlyAtTheirSequences ==
  [][ /\ wts'.appcursor # wts.appcursor
         => /\ AtByte /\ Head(tbuf) \in {104, 108}
            /\ EscIs(wts, <<ESC, 91, 63, 49>>)
      /\ wts'.altscren # wts.altscren
         => /\ AtByte /\ Head(tbuf) \in {104, 108}
            /\ \/ EscIs(wts, <<ESC, 91, 63, 52, 55>>)
               \/ EscIs(wts, <<ESC, 91, 63, 49, 48, 52, 55>>)
               \/ EscIs(wts, <<ESC, 91, 63, 49, 48, 52, 57>>) ]_vars

\* The client encoding of one byte: 0x20..0x7e but the backslash as they
\* are, every other byte as a backslash and two lower-case hex digits.
HexDigit(d) == IF d < 10 THEN 48 + d ELSE 97 + (d - 10)
Enc(b) ==
  IF b >= 32 /\ b <= 126 /\ b # 92 THEN <<b>>
  ELSE <<92, HexDigit(b \div 16), HexDigit(b % 16)>>

\* The screen-state mnemonics: \s1, \s2, \ss\s2\cl, \s1\rs.
Mnemonics ==
  { <<92, 115, 49>>, <<92, 115, 50>>,
    <<92, 115, 115, 92, 115, 50, 92, 99, 108>>,
    <<92, 115, 49, 92, 114, 115>> }

\* out is the encoding of the bytes of inp in their order, a mnemonic
\* before some of them, and one LF after the last.
RECURSIVE IsEncodingOf(_, _)
IsEncodingOf(out, inp) ==
  IF inp = <<>> THEN out = <<LF>>
  ELSE \E mn \in Mnemonics \cup {<<>>} :
         LET pre == mn \o Enc(Head(inp)) IN
         /\ IsPrefix(pre, out)
         /\ IsEncodingOf(Drop(out, Len(pre)), Tail(inp))

\* C20: after every call of process_tty_out that has kept within its
\* arrays, rwoutbuf[0..rwoutlen) is the encoding of this call's input
\* followed by one LF, holds nothing of earlier calls, and has its only LF
\* at the end.
C20_RoutIsThisCallsEncoding ==
  (tproc = "up" /\ tpc = "idle" /\ tcalls > 0 /\ ~tobs.oob)
  => /\ IsEncodingOf(wts.rwoutbuf, tobs.input)
     /\ \A i \in 1..Len(wts.rwoutbuf) :
          wts.rwoutbuf[i] = LF <=> i = Len(wts.rwoutbuf)
     /\ wts.rwout # 0 => tout[Len(tout)] = wts.rwoutbuf

\* A later call has returned with a mnemonic and hex escapes in rwoutbuf.
C20_Witness ==
  /\ tproc = "up" /\ tpc = "idle" /\ tcalls >= 2 /\ ~tobs.oob
  /\ tobs.input = <<ESC, 91, 63, 52, 55, 104>>
  /\ wts.rwoutbuf = <<92, 49, 98, 91, 63, 52, 55, 92, 115, 50, 104, LF>>

(* ------------------ claims about the client encoding ------------------ *)
\* The value of a lower-case hex digit, 16 for any other byte.
HexValue(d) ==
  IF d \in 48..57 THEN d - 48 ELSE IF d \in 97..102 THEN d - 87 ELSE 16

\* The decoder of the client side for one encoded byte: a backslash and
\* two hex digits give the byte of that value, any other single byte gives
\* itself; <<>> for what is not an encoding.
Unrout(s) ==
  IF Len(s) = 1 /\ s[1] # 92 THEN s
  ELSE IF Len(s) = 3 /\ s[1] = 92 /\ HexValue(s[2]) < 16 /\ HexValue(s[3]) < 16
  THEN <<HexValue(s[2]) * 16 + HexValue(s[3])>>
  ELSE <<>>

\* What putrout adds to an empty buffer for the byte b.
RoutOf(b) == putrout([WtsInit(0) EXCEPT !.rwoutbuf = <<>>], b).rwoutbuf

\* C21: putrout maps a byte of 0x20..0x7e other than the backslash to that
\* one byte, and every other byte to three bytes: a backslash and the two
\* lower-case hex digits of its value; no two bytes share an encoding, and
\* decoding the encoding gives the byte back.
C21_PutroutEncodesEachByte ==
  (tproc = "up" /\ tpc = "idle" /\ tcalls > 0)
  => LET b == tobs.input[1]
         e == Take(wts.rwoutbuf, Len(wts.rwoutbuf) - 1)
     IN /\ wts.rwoutbuf = e \o <<LF>>
        /\ tout[Len(tout)] = wts.rwoutbuf
        /\ IF b \in 32..126 /\ b # 92 THEN e = <<b>>
           ELSE /\ Len(e) = 3 /\ e[1] = 92
                /\ HexValue(e[2]) = b \div 16 /\ HexValue(e[3]) = b % 16
        /\ Unrout(e) = <<b>>
        /\ e = RoutOf(b)
        /\ \A c \in 0..255 : c # b => RoutOf(c) # e

\* The call on the byte 0x7f has returned with its three bytes.
C21_Witness ==
  /\ tproc = "up" /\ tpc = "idle" /\ tcalls > 0
  /\ tobs.input = <<127>> /\ wts.rwoutbuf = <<92, 55, 102, LF>>

(* ---------------- claims about the keyboard path ---------------------- *)
\* The bytes of a sequence of writes.
RECURSIVE Flat(_)
Flat(ws) == IF ws = <<>> THEN <<>> ELSE Head(ws) \o Flat(Tail(ws))

\* The client protocol as the escape table states it: the PTY bytes `out`
\* for the client bytes read so far, and the window-size sequences `wins`
\* completed, each with the number of bytes read when its 8th byte came.
RefInit == [ mode |-> "raw", acc |-> <<>>, out |-> <<>>, wins |-> <<>>, n |-> 0 ]

CursorLetter(c) ==
  CASE c = 94 -> 65 [] c = 118 -> 66 [] c = 62 -> 67 [] c = 60 -> 68
    [] c = 101 -> 70 [] c = 104 -> 72 [] OTHER -> 0

RefByte(st, b, app) ==
  LET s == [st EXCEPT !.n = @ + 1] IN
  IF b = LF THEN s
  ELSE CASE s.mode = "raw" ->
              IF b = 92 THEN [s EXCEPT !.mode = "esc"]
              ELSE [s EXCEPT !.out = Append(@, b)]
         [] s.mode = "esc" ->
              CASE b = 110 -> [s EXCEPT !.mode = "raw", !.out = Append(@, LF)]
                [] b = 92 -> [s EXCEPT !.mode = "raw", !.out = Append(@, 92)]
                [] b = 119 -> [s EXCEPT !.mode = "win", !.acc = <<>>]
                [] CursorLetter(b) # 0 ->
                     [s EXCEPT !.mode = "raw",
                               !.out = @ \o <<ESC, IF app # 0 THEN 79 ELSE 91,
                                              CursorLetter(b)>>]
                [] OTHER -> [s EXCEPT !.mode = "raw"]
         [] OTHER ->
              IF Len(s.acc) < 7 THEN [s EXCEPT !.acc = Append(@, b)]
              ELSE [s EXCEPT !.mode = "raw", !.acc = <<>>,
                             !.wins = Append(@, [end |-> s.n,
                                                 bytes |-> Append(s.acc, b)])]

RECURSIVE Ref(_, _, _)
Ref(st, bytes, app) ==
  IF bytes = <<>> THEN st
  ELSE Only({ Ref(s, Tail(bytes), app) : s \in {RefByte(st, Head(bytes), app)} })

AllDigits(bs) == \A i \in 1..Len(bs) : IsDigit(bs[i])
Dec4(bs, from) ==
  (bs[from] - 48) * 1000 + (bs[from + 1] - 48) * 100
    + (bs[from + 2] - 48) * 10 + (bs[from + 3] - 48)

\* The window-size sequences that completed during the call made last.
DoneInCall ==
  SelectSeq(Ref(RefInit, kobs.all, wts.appcursor).wins,
            LAMBDA v : v.end > Len(kobs.all) - Len(kobs.input))

\* C14: when a window-size sequence of 8 decimal digits completes during a
\* call of process_kbd, however it was split across the calls, swrow and
\* swcol are the values of RRRR and CCCC, none of its bytes went to the
\* PTY, sendsigwin is true when the call ends and the call issues
\* TIOCSWINSZ with those rows and columns; a call in which no such sequence
\* completes issues no ioctl.
C14_WindowSizeReachesThePty ==
  (kcalls > 0 /\ tproc = "up") =>
    LET valid == SelectSeq(DoneInCall, LAMBDA v : AllDigits(v.bytes)) IN
    /\ Flat(kpty) = Ref(RefInit, kobs.all, wts.appcursor).out
    /\ valid # <<>> =>
         LET v == valid[Len(valid)] IN
         /\ wts.swrow = Dec4(v.bytes, 1) /\ wts.swcol = Dec4(v.bytes, 5)
         /\ wts.sendsigwin = 1
         /\ kobs.ioc = << <<Dec4(v.bytes, 1), Dec4(v.bytes, 5)>> >>
    /\ valid = <<>> => kobs.ioc = <<>>

\* C15: when the 8 bytes after backslash-w are not 8 decimal digits, swrow
\* and swcol keep the values they had before the sequence and sendsigwin
\* is false; and the parser mode is Raw after the 8th byte, valid or not.
C15_InvalidSizeIsSkipped ==
  (kcalls > 0 /\ tproc = "up") =>
    /\ (Len(DoneInCall) = 1 /\ ~AllDigits(DoneInCall[1].bytes)) =>
         /\ wts.swrow = kobs.pre.swrow /\ wts.swcol = kobs.pre.swcol
         /\ wts.sendsigwin = 0
    /\ (DoneInCall # <<>>
        /\ DoneInCall[Len(DoneInCall)].end = Len(kobs.all)) => wts.escp = 0

\* process_kbd on the bytes inp from the keyboard state part.
RunFrom(part, inp) ==
  process_kbd(
    KMach([wts EXCEPT !.escp = part.escp, !.wsi = part.wsi,
                      !.winsize = part.winsize, !.swrow = part.swrow,
                      !.swcol = part.swcol, !.sendsigwin = part.sendsigwin,
                      !.appcursor = part.appcursor],
          <<>>, <<>>, <<>>, "up"),
    inp)

\* The call made last, had it begun in the state alt, would have written
\* the same bytes to the PTY and left the same sendsigwin.
SameResultFrom(alt) ==
  LET r == RunFrom(alt, kobs.input) IN
  /\ Flat(r.pty) = Flat(kobs.out)
  /\ r.wts.sendsigwin = wts.sendsigwin

OtherSizes == {0, 24}
OtherFill == {48, 120}
OtherWsi == {0, 3, 7}

\* States with the parser mode and appcursor of p, and any wsi, winsize
\* accumulator, swrow and swcol.
AnyRest(p) ==
  { [p EXCEPT !.wsi = i, !.winsize = [j \in 0..7 |-> g], !.swrow = r,
              !.swcol = c] :
      i \in OtherWsi, g \in OtherFill, r \in OtherSizes, c \in OtherSizes }

\* The same, but for a window size under way: wsi and the bytes
\* accumulated so far, winsize[0..wsi), are those of p.
SameSequence(p) ==
  { [p EXCEPT !.wsi = IF p.escp = 119 THEN p.wsi ELSE i,
              !.winsize = [j \in 0..7 |->
                             IF p.escp = 119 /\ j < p.wsi THEN p.winsize[j]
                             ELSE g],
              !.swrow = r, !.swcol = c] :
      i \in OtherWsi, g \in OtherFill, r \in OtherSizes, c \in OtherSizes }

\* C16 as stated: the bytes written to the PTY and sendsigwin depend on
\* the input, the parser mode and appcursor only, whatever wsi, the
\* winsize accumulator, swrow and swcol are.
C16_ModeAndCursorDecide ==
  (kcalls > 0 /\ tproc = "up") =>
    \A alt \in AnyRest(kobs.pre) : SameResultFrom(alt)

\* C16 amended: they depend on the input, the parser mode, appcursor and,
\* while a window size is being read, wsi and the bytes accumulated so far.
C16_ModeCursorAndSequenceDecide ==
  (kcalls > 0 /\ tproc = "up") =>
    \A alt \in SameSequence(kobs.pre) : SameResultFrom(alt)

\* A call that began in the middle of a window size has completed it.
C16_Witness ==
  /\ kcalls > 0 /\ tproc = "up"
  /\ kobs.pre.escp = 119 /\ kobs.pre.wsi = 4
  /\ kobs.input = <<48, 48, 56, 48>> /\ wts.sendsigwin = 1
  /\ kobs.ioc = << <<24, 80>> >>

\* C17: the calls made so far have written to the PTY what one call on
\* all their input writes, and have left the parser mode, swrow and swcol
\* that call leaves.
C17_SplitInvariant ==
  (kcalls > 0 /\ tproc = "up") =>
    LET one == RunFrom([KObsInit.pre EXCEPT !.appcursor = wts.appcursor],
                       kobs.all) IN
    /\ Flat(kpty) = Flat(one.pty)
    /\ wts.escp = one.wts.escp
    /\ wts.swrow = one.wts.swrow /\ wts.swcol = one.wts.swcol

\* A window size cut after the backslash, after the w and in the middle of
\* the digits has been parsed.
C17_Witness ==
  /\ kcalls = 4 /\ tproc = "up"
  /\ kobs.all = <<92, 119, 48, 48, 50, 52, 48, 48, 56, 48>>
  /\ wts.swrow = 24 /\ wts.swcol = 80 /\ wts.escp = 0 /\ kpty = <<>>

\* The cursor key a call completes: backslash and key in one call, or the
\* key in a call that began after the backslash.
KeyOfCall ==
  IF kobs.pre.escp = 0 /\ Len(kobs.input) = 2 /\ kobs.input[1] = 92
  THEN CursorLetter(kobs.input[2])
  ELSE IF kobs.pre.escp = 49 /\ Len(kobs.input) = 1
  THEN CursorLetter(kobs.input[1])
  ELSE 0

\* C18: each cursor key goes to the PTY as the three bytes ESC, X, L with
\* X = 'O' if the application-cursor sequence process_tty_out processed
\* last was ESC [ ? 1 h, and '[' if it was ESC [ ? 1 l or there was none.
C18_CursorKeysFollowTheMode ==
  (kcalls > 0 /\ tproc = "up" /\ KeyOfCall # 0) =>
    Flat(kobs.out) = <<ESC, IF kobs.appseq = "h" THEN 79 ELSE 91, KeyOfCall>>

StripLf(bs) == SelectSeq(bs, LAMBDA b : b # LF)

\* C19: the call made last, given its input without the newline bytes,
\* would have written the same bytes to the PTY and left the same parser
\* mode, swrow, swcol and sendsigwin.
C19_NewlinesAreDropped ==
  (kcalls > 0 /\ tproc = "up") =>
    LET r == RunFrom(kobs.pre, StripLf(kobs.input)) IN
    /\ Flat(r.pty) = Flat(kobs.out)
    /\ r.wts.escp = wts.escp /\ r.wts.sendsigwin = wts.sendsigwin
    /\ r.wts.swrow = wts.swrow /\ r.wts.swcol = wts.swcol

\* Newlines inside the digits of a window size have been dropped.
C19_Witness ==
  /\ kcalls > 0 /\ tproc = "up"
  /\ kobs.pre.escp = 119 /\ kobs.pre.wsi = 4
  /\ kobs.input = <<48, LF, 48, 50, LF, 52>>
  /\ wts.swrow = 24 /\ wts.swcol = 24 /\ wts.sendsigwin = 1

(* ---------------- claims about screen switches (ScrSpec) -------------- *)
\* The PTY output processed so far: all that the raw log has got, but the
\* bytes of the running call still to come.
Processed ==
  LET all == Flat(traw) IN Take(all, Len(all) - Len(tbuf))

EndsWith(s, suf) ==
  Len(suf) <= Len(s) /\ SubSeq(s, Len(s) - Len(suf) + 1, Len(s)) = suf

\* The output processed so far ends with a screen sequence that lacks its
\* final byte: ESC [ ? 47 or ESC [ ? 1047, or ESC [ ? 1049.
ScrPlain ==
  \/ EndsWith(Processed, <<ESC, 91, 63, 52, 55>>)
  \/ EndsWith(Processed, <<ESC, 91, 63, 49, 48, 52, 55>>)
ScrSaving == EndsWith(Processed, <<ESC, 91, 63, 49, 48, 52, 57>>)

\* The mnemonic of the table of recognized sequences for the final byte b.
ScrMnemonic(b) ==
  IF ScrPlain THEN (IF b = 104 THEN <<92, 115, 50>> ELSE <<92, 115, 49>>)
  ELSE IF b = 104 THEN <<92, 115, 115, 92, 115, 50, 92, 99, 108>>
  ELSE <<92, 115, 49, 92, 114, 115>>

\* Where \s1 or \s2 stands in client-bound output.  A backslash before an
\* s is never the encoding of a byte, which has hex digits there.
ScreenMarks(out) ==
  { i \in 1..(Len(out) - 2) :
      out[i] = 92 /\ out[i + 1] = 115 /\ out[i + 2] \in {49, 50} }

\* The digit of the screen mnemonic emitted last, 1 when there is none.
LastScreen(out) ==
  LET ms == ScreenMarks(out) IN
  IF ms = {} THEN 49
  ELSE out[(CHOOSE i \in ms : \A j \in ms : j <= i) + 2]

\* What the step has added to the client-bound buffer.
Added == Drop(wts'.rwoutbuf, Len(wts.rwoutbuf))

\* C22: between calls of process_tty_out, recount_state writes \s2 when
\* the screen mnemonic emitted last into the client-bound output was \s2,
\* and \s1 when it was \s1 or none has been emitted; a screen sequence,
\* whole or split across calls, emits its mnemonic once, at its final
\* byte, and no byte outside such a sequence emits one.
C22_RecountFollowsTheLastMnemonic ==
  [][ /\ trec' # trec
         => /\ tpc = "idle"
            /\ trec' = Append(trec, <<92, 115, LastScreen(Flat(tout))>>)
      /\ (AtByte /\ tproc' = "up")
         => LET b == Head(tbuf) IN
            /\ ((ScrPlain \/ ScrSaving) /\ b \in {104, 108})
               => Added = ScrMnemonic(b) \o Enc(b)
            /\ ~((ScrPlain \/ ScrSaving) /\ b \in 97..122)
               => Added = Enc(b) ]_vars

\* ESC [ came in one call and ? 4 7 h in the next; \s2 has gone out once,
\* and recount_state has written \s2 since.
C22_Witness ==
  /\ tproc = "up" /\ tpc = "idle"
  /\ traw = << <<ESC, 91>>, <<63, 52, 55, 104, 120, ESC>> >>
  /\ Cardinality(ScreenMarks(Flat(tout))) = 1
  /\ trec # <<>> /\ trec[Len(trec)] = <<92, 115, 50>>

(* ------------ claims about operating system commands (OscSpec) -------- *)
\* The text of PTY output: its bytes but those of every ESC ] ... BEL, from
\* the ESC to the BEL, and but a BEL alone; `osc` says an OSC is open.
RECURSIVE TextOf(_, _, _)
TextOf(bytes, osc, acc) ==
  IF bytes = <<>> THEN acc
  ELSE LET b == Head(bytes) IN
       Only({ TextOf(Tail(bytes), o, a) :
                o \in {(b = ESC) \/ (osc /\ b # BEL)},
                a \in {IF osc \/ b \in {ESC, BEL} THEN acc
                       ELSE Append(acc, b)} })

\* What the text log has got, and the line not written yet.
Logged == Flat(tlog) \o [k \in 1..wts.linesz |-> wts.linebuf[k - 1]]

\* The client encoding of a chunk.
RECURSIVE EncAll(_)
EncAll(bytes) ==
  IF bytes = <<>> THEN <<>> ELSE Enc(Head(bytes)) \o EncAll(Tail(bytes))

\* C23: of an OSC sequence ESC ] ... BEL, whole or split across calls, no
\* byte is stored in linebuf or written to the text log, and the text
\* before and after it is contiguous in the logged line; every byte of it
\* still goes to the client-bound output, encoded.
C23_OscLeavesNoTrace ==
  /\ tproc = "up"
  /\ Logged = TextOf(Processed, FALSE, <<>>)
  /\ wts.linepos = wts.linesz
  /\ Len(tout) <= Len(traw)
  /\ \A k \in 1..Len(tout) : tout[k] = EncAll(traw[k]) \o <<LF>>

(* ------------- claims about the split of PTY output (SplitSpec) ------- *)
\* The while loop of process_tty_out to its end.  An access outside
\* linebuf or escbuf sets obs.oob, and the result means nothing then.
RECURSIVE RunBytes(_)
RunBytes(t) ==
  IF t.proc # "up" \/ t.buf = <<>> THEN t
  ELSE Only({ RunBytes(n) :
                n \in {ByteStep(t, [out |-> "skip", byte |-> 0])} })

\* One call of process_tty_out on bytes, made on the filter as
\* SplitInit leaves it.
OneCall(bytes) ==
  RunBytes(CallStep(TMach(SplitStart, <<>>, "idle", <<>>, <<>>, <<>>, "up",
                          TObsInit, <<>>), bytes))

\* C24: whatever the split of PTY output into calls of process_tty_out,
\* the writes to the text log and the filter state (linebuf, linepos,
\* linesz, escbuf, escsz, altscren, appcursor) are those of one call on
\* the whole output, as long as no access has left linebuf or escbuf.
C24_SplitOfOutputIsInvisible ==
  (tproc = "up" /\ ~tobs.oob)
  => LET r == OneCall(Processed) IN
     /\ r.proc = "up" /\ ~r.obs.oob /\ r.buf = <<>>
     /\ tlog = r.log
     /\ wts.linebuf = r.wts.linebuf /\ wts.linepos = r.wts.linepos
     /\ wts.linesz = r.wts.linesz
     /\ wts.escbuf = r.wts.escbuf /\ wts.escsz = r.wts.escsz
     /\ wts.altscren = r.wts.altscren /\ wts.appcursor = r.wts.appcursor

\* ab, then BS ESC [, then K in a call of its own: ESC [ K has cut the line
\* at the cursor, and the next call has returned.
C24_Witness ==
  /\ tproc = "up" /\ tpc = "idle" /\ ~tobs.oob
  /\ traw = << <<97, 98>>, <<BS, ESC, 91>>, <<75>>, <<LF>> >>
  /\ tlog = << <<97, LF>> >>
  /\ wts.linesz = 0 /\ wts.escsz = 0

(* --------------- claims about the line buffer (SplitSpec) ------------- *)
\* A byte the filter stores in linebuf when no escape is pending.
Ordinary(b) == b \notin {CR, BS, BEL, ESC, LF}

\* The output processed so far is text: ordinary bytes and LF.
TextOnly == \A k \in 1..Len(Processed) : Ordinary(Processed[k]) \/ Processed[k] = LF

\* C25: when ordinary bytes fill linebuf to its capacity the whole buffer
\* is written to the text log, linesz and linepos go back to 0 and the
\* bytes that follow start a new chunk: the log and the line in linebuf
\* hold every byte of the text once, in order, each write is a full
\* buffer or ends a line, and the process goes on.
C25_FullBufferIsFlushed ==
  TextOnly
  => /\ tproc = "up"
     /\ Logged = Processed
     /\ wts.linesz < LineBufSize /\ wts.linepos = wts.linesz
     /\ \A k \in 1..Len(tlog) :
          /\ Len(tlog[k]) \in 1..LineBufSize
          /\ \A j \in 1..(Len(tlog[k]) - 1) : tlog[k][j] # LF
          /\ Len(tlog[k]) = LineBufSize \/ tlog[k][Len(tlog[k])] = LF

\* ab and ? 4 have filled linebuf and have been written; the 7 that
\* followed in the same call starts the next chunk.
C25_Witness ==
  /\ tproc = "up" /\ TextOnly
  /\ Processed = <<97, 98, 63, 52, 55>>
  /\ tlog = << <<97, 98, 63, 52>> >>
  /\ wts.linesz = 1 /\ wts.linepos = 1 /\ wts.linebuf[0] = 55

\* seq is PTY output up to and including an ESC [ K, then ordinary bytes,
\* then at most one LF, its last byte.  ErasePoint is where the K stands.
LastEsc(seq) ==
  LET es == { k \in 1..Len(seq) : seq[k] = ESC } IN
  IF es = {} THEN 0 ELSE CHOOSE k \in es : \A j \in es : j <= k

ErasePoint(seq) == LastEsc(seq) + 2

ErasedLine(seq) ==
  LET e == LastEsc(seq) IN
  /\ e > 0 /\ Len(seq) >= e + 2
  /\ seq[e + 1] = 91 /\ seq[e + 2] = 75
  /\ \A k \in (e + 3)..Len(seq) :
       Ordinary(seq[k]) \/ (seq[k] = LF /\ k = Len(seq))

\* C26: ESC [ K leaves linesz = linepos and keeps linepos and
\* linebuf[0..linepos), so that up to the next LF the text log gets the
\* bytes that were before the cursor, the bytes written after the K and
\* the LF, and nothing else.
C26_EraseKeepsWhatIsBeforeTheCursor ==
  /\ (tproc = "up" /\ ErasedLine(Processed))
     => LET n == Len(Processed)
            p == ErasePoint(Processed)
            b == OneCall(Take(Processed, p - 1))
            k == OneCall(Take(Processed, p))
            before == [j \in 1..b.wts.linepos |->
                         b.wts.linebuf[(j - 1) % LineBufSize]]
        IN /\ k.wts.linesz = b.wts.linepos
           /\ k.wts.linepos = b.wts.linepos
           /\ k.wts.linebuf = b.wts.linebuf
           /\ Processed[n] = LF
              => Flat(tlog) = Flat(k.log) \o before \o SubSeq(Processed, p + 1, n)
  /\ (tproc # "up" /\ tbuf # <<>>)
     => ~ErasedLine(Append(Processed, Head(tbuf)))

(* ---------------- claims about the session socket (AttSpec) ----------- *)
\* C27: the wake probe \N is the first data written to the session
\* socket; after it the socket gets the client's payload bytes in the
\* order the decoder appended them to the pending buffer: a write takes
\* bytes from the front of the buffer, what it does not take stays there
\* ahead of the bytes decoded later, and there is a write only when the
\* buffer is not empty.
C27_SocketGetsProbeThenPayloadInOrder ==
  /\ [](/\ Take(sockout, 2) = <<92, 78>>
        /\ IsPrefix(Drop(sockout, 2) \o dest, Expected(frames))
        /\ (apc = "wr" /\ rset.ws) => dest # <<>>)
  /\ [][ /\ (sockout' # sockout)
            => /\ dest # <<>>
               /\ \E n \in 1..Len(dest) :
                    /\ sockout' = sockout \o Take(dest, n)
                    /\ dest' = Drop(dest, n)
         /\ (sockout' = sockout) => IsPrefix(dest, dest') ]_vars

\* The whole stream has been decoded; after the probe a part of the
\* payload has been written and the rest is pending for the next turn.
C27_Witness ==
  /\ proc = "up" /\ apc = "select" /\ wire = <<>> /\ pipe = <<>> /\ pc = "idle"
  /\ Len(sockout) > 2 /\ Len(dest) > 1
  /\ Drop(sockout, 2) \o dest = Expected(frames)

(* ------------------ claims about the decoder's buffer ----------------- *)
\* The count handed to mkeaval by the forceinby that is about to run, or
\* that is waiting in read(2); 0 when none is.
Requested ==
  IF pc = "read" THEN need
  ELSE IF pc = "run" /\ inb.state # "P" THEN Cneed(inb) ELSE 0

\* The process aborts in this step at line 99 (a length byte without the
\* MASK bit) or at line 46 (read(2) returned 0).
AbortsOnInput ==
  \/ /\ inb.state = "L" /\ inb'.bfi = inb.bfi + 1
     /\ obs'.lastlen \in 0..127
  \/ /\ pc = "read" /\ wire = <<>> /\ obs'.lastread = "eof"

\* C28: whatever the client sends and wherever the reads end, the
\* decoder's consistency checks never fire: 0 <= bfi <= bfsz <= sizeof(buf)
\* at every step, mkeaval is never asked for more than sizeof(buf) bytes,
\* the decoder goes back to its caller in state 0 only with bfi = bfsz,
\* and the process aborts only on a length byte without the MASK bit or
\* on the end of input, never at line 27 or line 73.
C28_DecoderChecksNeverFire ==
  /\ [](/\ 0 <= inb.bfi /\ inb.bfi <= inb.bfsz /\ inb.bfsz <= BufSize
        /\ Requested <= BufSize
        /\ (pc = "idle" /\ inb.state = "0") => (inb.bfi = inb.bfsz))
  /\ [][(proc = "up" /\ proc' = "abort") => AbortsOnInput]_vars

\* The decoder has gone back to its caller in state 0 after a data frame
\* longer than the buffer, and the caller has entered it again.
C28_Witness ==
  /\ proc = "up" /\ pc = "run" /\ inb.state = "0"
  /\ obs.called /\ obs.lastread = "none"
  /\ Len(dest) > BufSize

(* ---------------- claims about the key-byte buffer -------------------- *)
\* The call of writetosubproccore made last, after n turns of its loop.
DuringCall(n) ==
  KbdLoop(KMach([wts EXCEPT !.escp = kobs.pre.escp, !.wsi = kobs.pre.wsi,
                            !.winsize = kobs.pre.winsize,
                            !.swrow = kobs.pre.swrow,
                            !.swcol = kobs.pre.swcol, !.sendsigwin = 0],
                <<>>, <<>>, <<>>, "up"),
          Take(kobs.input, n))

WriteSized(ws) == \A i \in 1..Len(ws) : Len(ws[i]) \in 1..KBufSize

\* C29: kbuf is empty when a call of writetosubproccore begins and when it
\* ends, so the check of line 544 never exits; kbufsz is at most
\* sizeof(kbuf) after every byte of the call; every write to the PTY has
\* between 1 and sizeof(kbuf) bytes; and the writes, put end to end, are
\* the translation of the client's bytes in the order they came.
C29_KeyBufferIsEmptyBetweenCalls ==
  /\ kbuf = <<>> /\ tproc = "up"
  /\ \A n \in 0..Len(kobs.input) :
       /\ Len(DuringCall(n).kbuf) <= KBufSize
       /\ WriteSized(DuringCall(n).pty)
       /\ IsPrefix(DuringCall(n).pty, kobs.out)
  /\ WriteSized(kpty)
  /\ Flat(kpty) = Ref(RefInit, kobs.all, wts.appcursor).out

\* A call on more than sizeof(kbuf) key bytes has returned: it wrote a
\* full buffer, then the rest, and another call has begun and ended.
C29_Witness ==
  /\ tproc = "up" /\ kbuf = <<>> /\ kcalls > 1
  /\ Len(kpty) > 2
  /\ kobs.input = <<97, 98, 99, 100, 101, 102, 103, 92, 104>>
  /\ Len(kobs.out) = 2 /\ Len(kobs.out[1]) = KBufSize
  /\ Len(DuringCall(8).kbuf) = 7

====
